---- MODULE Spec2Model ----
(***************************************************************************)
(* CodeQAuditor: the content-addressed store (save_scan_and_rows and       *)
(* ResultsBase.build_pk), the orchestration engine (audit_file), the audit *)
(* command, and the pure functions around them (AuditTool._run,            *)
(* JscpdTool.parse, _aggregate_cc_list and the path helpers of the         *)
(* parsers).                                                               *)
(*                                                                         *)
(* Text is a sequence of tokens.  The characters the code treats specially *)
(* ("/", "\\", "|") are always tokens of their own; every other token is a *)
(* maximal run of ordinary characters.  Concatenation is \o.               *)
(*                                                                         *)
(* A column value is None, a str or an int:                                *)
(*     [t |-> "none"]   [t |-> "str", v |-> text]   [t |-> "int", v |-> n] *)
(***************************************************************************)
EXTENDS Integers, Sequences, FiniteSets, TLC

None == [t |-> "none"]
S(text) == [t |-> "str", v |-> text]
I(n) == [t |-> "int", v |-> n]

\* Python truthiness of a column value: None, "" and 0 are falsy.
Truthy(val) ==
    CASE val.t = "none" -> FALSE
      [] val.t = "str" -> val.v # <<>>
      [] val.t = "int" -> val.v # 0

\* str(val) for a str or an int.
Str(val) == IF val.t = "int" THEN <<ToString(val.v)>> ELSE val.v

\* (x or ""): the text of a value, "" when it is falsy.
OrEmpty(val) == IF Truthy(val) THEN Str(val) ELSE <<>>

\* s.replace("\\", "/")
ReplaceBackslash(s) == [i \in DOMAIN s |-> IF s[i] = "\\" THEN "/" ELSE s[i]]

\* The working directory of the process, as path segments.
Cwd == << <<"w">> >>

\* os.path.isabs
IsAbs(s) == Len(s) > 0 /\ s[1] = "/"

\* s.split("/") without the empty pieces: a sequence of segments.
RECURSIVE SplitFrom(_, _, _)
SplitFrom(s, i, cur) ==
    IF i > Len(s) THEN (IF cur = <<>> THEN <<>> ELSE <<cur>>)
    ELSE IF s[i] = "/"
         THEN (IF cur = <<>> THEN <<>> ELSE <<cur>>) \o SplitFrom(s, i + 1, <<>>)
         ELSE SplitFrom(s, i + 1, Append(cur, s[i]))

Split(s) == SplitFrom(s, 1, <<>>)

\* os.path.normpath on segments: "." is dropped, ".." removes its parent.
RECURSIVE NormSegs(_, _)
NormSegs(segs, acc) ==
    IF segs = <<>> THEN acc
    ELSE IF Head(segs) = <<".">> THEN NormSegs(Tail(segs), acc)
    ELSE IF Head(segs) = <<"..">>
         THEN NormSegs(Tail(segs),
                       IF acc = <<>> THEN acc ELSE SubSeq(acc, 1, Len(acc) - 1))
         ELSE NormSegs(Tail(segs), Append(acc, Head(segs)))

\* os.path.abspath, as the segments below "/".
AbsSegs(s) == NormSegs(IF IsAbs(s) THEN Split(s) ELSE Cwd \o Split(s), <<>>)

\* "/".join(segments)
RECURSIVE JoinSegs(_)
JoinSegs(segs) ==
    IF segs = <<>> THEN <<>>
    ELSE IF Len(segs) = 1 THEN Head(segs)
    ELSE Head(segs) \o <<"/">> \o JoinSegs(Tail(segs))

RECURSIVE CommonLen(_, _)
CommonLen(a, b) ==
    IF a = <<>> \/ b = <<>> \/ Head(a) # Head(b) THEN 0
    ELSE 1 + CommonLen(Tail(a), Tail(b))

\* os.path.relpath(path, start)
RelPath(path, start) ==
    LET start_list == AbsSegs(start)
        path_list == AbsSegs(path)
        i == CommonLen(start_list, path_list)
        rel_list == [k \in 1..(Len(start_list) - i) |-> <<"..">>]
                    \o SubSeq(path_list, i + 1, Len(path_list))
    IN IF rel_list = <<>> THEN <<".">> ELSE JoinSegs(rel_list)

\* The identity columns of build_pk, in its order.
PkCols ==
    <<"fingerprint", "row_type", "metric_type", "rule_id", "check_id", "message",
      "line_number", "end_line_number", "col_offset", "end_col_offset">>

\* "|".join(parts)
RECURSIVE JoinBar(_)
JoinBar(parts) ==
    IF parts = <<>> THEN <<>>
    ELSE IF Len(parts) = 1 THEN Head(parts)
    ELSE Head(parts) \o <<"|">> \o JoinBar(Tail(parts))

\* The truthy identity columns of a row, as text, in PkCols order.
RECURSIVE PkParts(_, _)
PkParts(row, k) ==
    IF k > Len(PkCols) THEN <<>>
    ELSE (IF Truthy(row[PkCols[k]]) THEN <<Str(row[PkCols[k]])>> ELSE <<>>)
         \o PkParts(row, k + 1)

\* The key string build_pk hashes.
PkKey(row) ==
    LET rel_or_file == OrEmpty(row.file_path)
        root == ReplaceBackslash(OrEmpty(row.root))
        rel == IF root # <<>> /\ IsAbs(rel_or_file)
               THEN RelPath(rel_or_file, root)
               ELSE rel_or_file
    IN JoinBar(<<row.table, root, ReplaceBackslash(rel)>> \o PkParts(row, 1))

\* hashlib.sha256(key).hexdigest(): a digest names its key (no collisions).
Sha256Hex(key) == S(<<"sha256:">> \o key)

\* build_pk as it would be if the scan took part in the identity.
build_pk_with_scan(row) == Sha256Hex(PkKey(row) \o <<"|">> \o OrEmpty(row.scan_id))

\* ResultsBase.build_pk
build_pk(row) == Sha256Hex(PkKey(row))

(***************************************************************************)
(* Finding rows.  A row carries its table, the ResultsBase columns, the    *)
(* identity columns build_pk reads (None where the table has no such       *)
(* column), one column outside the identity (code), scan_id and pk.        *)
(***************************************************************************)
Row(table, root, file_path, fingerprint, rule_id, message, line_number, code) ==
    [table |-> table, root |-> root, file_path |-> file_path,
     fingerprint |-> fingerprint, row_type |-> None, metric_type |-> None,
     rule_id |-> rule_id, check_id |-> None, message |-> message,
     line_number |-> line_number, end_line_number |-> line_number,
     col_offset |-> I(0), end_col_offset |-> None,
     code |-> code, scan_id |-> None, pk |-> None]

Bandit == <<"bandit_results">>
Semgrep == <<"semgrep_results">>
ProjRoot == S(<<"/", "w", "/", "proj">>)

\* What the parsers hand over: rows of two tools for one project.  F1 and
\* F1c are the same finding with different text in a column outside the
\* identity; F3 keeps an absolute path.
F1 == Row(Bandit, ProjRoot, S(<<"proj", "/", "a.py">>), None, None, S(<<"m1">>), I(1), S(<<"x=1">>))
F1c == Row(Bandit, ProjRoot, S(<<"proj", "/", "a.py">>), None, None, S(<<"m1">>), I(1), S(<<"x = 1">>))
F2 == Row(Bandit, ProjRoot, S(<<"proj", "/", "a.py">>), None, None, S(<<"m1">>), I(2), S(<<"y=2">>))
F3 == Row(Semgrep, ProjRoot, S(<<"/", "w", "/", "proj", "/", "b.py">>), S(<<"fp">>), S(<<"r1">>), S(<<"m1">>), I(1), None)

Catalog == {F1, F1c, F2, F3}

MaxBatch == 2
MaxCalls == 2

\* build_pk of every row a call can meet, tabulated once: the catalogue
\* under every scan id.
PkTable ==
    [r \in {[c EXCEPT !.scan_id = I(n)] : c \in Catalog, n \in 1..(MaxCalls + 4)}
        |-> build_pk(r)]

Batches == UNION {[1..n -> Catalog] : n \in 0..MaxBatch}

\* The engine: connection.py passes the SQLite-only connect argument.
Dialect == "sqlite"

RECURSIVE SetMax(_)
SetMax(ns) ==
    IF ns = {} THEN 0
    ELSE LET n == CHOOSE n \in ns : TRUE
             m == SetMax(ns \ {n})
         IN IF n > m THEN n ELSE m

\* INTEGER PRIMARY KEY of scan_metadata: one more than the largest id present.
NextScanId(scanRows) == SetMax({s.id : s \in scanRows}) + 1

\* A unique-constraint conflict on (table, pk).
Conflict(rows, r) == \E q \in rows : q.table = r.table /\ q.pk = r.pk

\* One INSERT of a list of pending rows succeeds iff none conflicts with a
\* row already there or with an earlier row of the list.
RECURSIVE FlushOK(_, _)
FlushOK(present, pending) ==
    pending = <<>>
    \/ (~Conflict(present, Head(pending))
        /\ FlushOK(present \cup {Head(pending)}, Tail(pending)))

SeqSet(sq) == {sq[i] : i \in DOMAIN sq}

\* The row attached to the scan with its pk left as it came.
WithScanOnly(row, scan_id) == [row EXCEPT !.scan_id = I(scan_id)]

\* Lines 102-109 and the before_insert hook: the row belongs to the scan,
\* and a missing pk is computed.
WithScanAndPk(row, scan_id) ==
    LET attachedRow == [row EXCEPT !.scan_id = I(scan_id)]
    IN [attachedRow EXCEPT !.pk = IF Truthy(row.pk) THEN row.pk ELSE PkTable[attachedRow]]

\* Lines 111-114: keep the first row of every pk.
RECURSIVE Dedupe(_, _)
Dedupe(rows, seen_pks) ==
    IF rows = <<>> THEN <<>>
    ELSE IF Head(rows).pk \in seen_pks THEN Dedupe(Tail(rows), seen_pks)
    ELSE <<Head(rows)>> \o Dedupe(Tail(rows), seen_pks \cup {Head(rows).pk})

\* by_cls: the tables in order of first appearance.
RECURSIVE ClsOrder(_, _)
ClsOrder(rows, seen) ==
    IF rows = <<>> THEN <<>>
    ELSE IF Head(rows).table \in seen THEN ClsOrder(Tail(rows), seen)
    ELSE <<Head(rows).table>> \o ClsOrder(Tail(rows), seen \cup {Head(rows).table})

OfCls(rows, cls) == SelectSeq(rows, LAMBDA r : r.table = cls)

\* session.rollback(): everything flushed since the last commit is undone,
\* the scan row included.
Rollback(st) == [st EXCEPT !.txRows = {}, !.txScan = FALSE]

\* Lines 143-149: per-row insert, every conflict answered by a rollback.
RECURSIVE PerRow(_, _, _)
PerRow(rows, durable, st) ==
    IF rows = <<>> THEN st
    ELSE IF Conflict(durable \cup st.txRows, Head(rows))
         THEN PerRow(Tail(rows), durable, Rollback(st))
         ELSE PerRow(Tail(rows), durable,
                     [st EXCEPT !.txRows = @ \cup {Head(rows)}, !.inserted = @ + 1])

\* Lines 120-149 for one class.  Rows the scan's cascade already flushed are
\* persistent, so add_all and flush have nothing to insert for them.
InsertCls(rows, durable, st, attached, upsert) ==
    IF upsert /\ Dialect \in {"sqlite", "postgresql"}
    THEN \* the generic insert() has no on_conflict_do_nothing
         [st EXCEPT !.raised = "AttributeError"]
    ELSE IF attached
         THEN [st EXCEPT !.inserted = @ + Len(rows)]
         ELSE IF FlushOK(durable \cup st.txRows, rows)
              THEN [st EXCEPT !.txRows = @ \cup SeqSet(rows), !.inserted = @ + Len(rows)]
              ELSE PerRow(rows, durable, Rollback(st))

RECURSIVE InsertAll(_, _, _, _, _, _)
InsertAll(order, rows, durable, st, attached, upsert) ==
    IF order = <<>> \/ st.raised # "none" THEN st
    ELSE InsertAll(Tail(order), rows, durable,
                   InsertCls(OfCls(rows, Head(order)), durable, st, attached, upsert),
                   attached, upsert)

\* save_scan_and_rows(Base, scan_row, result_rows, upsert) on a database db.
\* attached: the rows were built with scan=scan_row, so session.add(scan_row)
\* cascades to them and line 92 flushes them together with the scan.
\* The result: the database afterwards, the exception that left the call
\* (or "none"), and the returned pair.
save_scan_and_rows(db, ts, batch, attached, upsert) ==
    LET scan_id == NextScanId(db.scans)
        scan_row == [id |-> scan_id, scan_timestamp |-> ts]
        result_rows == batch
        prepared == [i \in DOMAIN result_rows |-> WithScanAndPk(result_rows[i], scan_id)]
        kept == Dedupe(prepared, {})
        st0 == [txRows |-> IF attached THEN SeqSet(prepared) ELSE {},
                txScan |-> TRUE, inserted |-> 0, raised |-> "none"]
        st == IF attached /\ ~FlushOK(db.findings, prepared)
              THEN [st0 EXCEPT !.raised = "IntegrityError"]
              ELSE InsertAll(ClsOrder(kept, {}), kept, db.findings, st0, attached, upsert)
    IN IF st.raised # "none"
       THEN [db |-> db, raised |-> st.raised, scan_id |-> 0, inserted |-> 0,
             rows |-> prepared]
       ELSE [db |-> [scans |-> db.scans \cup (IF st.txScan THEN {scan_row} ELSE {}),
                     findings |-> db.findings \cup st.txRows],
             raised |-> "none", scan_id |-> scan_id, inserted |-> st.inserted,
             rows |-> prepared]

VARIABLES
    scans,      \* durable scan_metadata rows
    findings,   \* durable Finding rows of all tables
    calls,      \* persist calls made so far
    last,       \* the last persist call: its input, the rows as the call left them
                \* in memory, its outcome, and the database before it
    pc,         \* where audit_file is: idle, collect, shutdown, persist, returned, raised
    cfg,        \* the arguments of the running audit_file: jobs, stop_on_error
    fut,        \* the state of every unit's future
    outcome,    \* what every finished unit produced
    collected,  \* the futures as_completed has yielded, in order
    results,    \* results: the tools whose run result was loaded
    errors,     \* errors: tool, exit code and message, in insertion order
    events,     \* the lifecycle events emitted, in order
    summaries,  \* the summaries flushed, in order
    idx,        \* the position of the persist loop in tools
    persisted,  \* the tools whose rows save_scan_and_rows accepted in this run
    inflight,   \* the units that were running when the run was aborted
    exit_code,  \* the exit code of the audit command, -1 while it runs
    fcall,      \* the last call of a pure function: its name and arguments
    fret,       \* what that call returned
    cmd         \* the audit command: its options, its projects and where it is

storeVars == <<scans, findings, calls, last>>
auditVars == <<pc, cfg, fut, outcome, collected, results, errors, events, summaries,
               idx, persisted, inflight, exit_code>>
\* The state outside the store and audit_file.
outerVars == <<fcall, fret, cmd>>
vars == <<scans, findings, calls, last, pc, cfg, fut, outcome, collected, results,
          errors, events, summaries, idx, persisted, inflight, exit_code, fcall, fret, cmd>>

NoCall == [n |-> 0]
NoFn == [fn |-> "none"]

MaxProjects == 3

\* The audit command before it is invoked.
CmdIdle ==
    [pc |-> "idle", tools |-> <<>>, parallel |-> "auto", jobs |-> 0,
     stop_on_error |-> FALSE, inner_jobs |-> 0, discovered |-> FALSE, n |-> 0,
     proj |-> [p \in 1..MaxProjects |-> "none"],
     res |-> [p \in 1..MaxProjects |-> "none"],
     left |-> [p \in 1..MaxProjects |-> 0],
     units |-> [p \in 1..MaxProjects |-> 0],
     collected |-> {}, next |-> 0, first_error |-> 0, escalated |-> 0, exit |-> -1]

\* The requested tools, in request order.
tools == <<"bandit", "semgrep", "mypy">>
ToolSet == {tools[i] : i \in DOMAIN tools}

MaxJobs == 3

InitDb ==
    /\ scans = {}
    /\ findings = {}
    /\ calls = 0
    /\ last = NoCall

AuditIdle ==
    /\ pc = "idle"
    /\ cfg = [jobs |-> 0, stop_on_error |-> FALSE, max_workers |-> 0]
    /\ fut = [t \in ToolSet |-> "none"]
    /\ outcome = [t \in ToolSet |-> [kind |-> "none"]]
    /\ collected = <<>>
    /\ results = {}
    /\ errors = <<>>
    /\ events = <<>>
    /\ summaries = <<>>
    /\ idx = 0
    /\ persisted = {}
    /\ inflight = {}
    /\ exit_code = -1
    /\ fcall = NoFn
    /\ fret = NoFn
    /\ cmd = CmdIdle

InitStore == InitDb /\ AuditIdle

\* The record of one call of save_scan_and_rows.
CallRecord(res, batch, attached, upsert) ==
    [n |-> calls + 1, batch |-> batch, attached |-> attached,
     upsert |-> upsert, raised |-> res.raised, scan_id |-> res.scan_id,
     inserted |-> res.inserted, rows |-> res.rows,
     scansBefore |-> scans, findingsBefore |-> findings]

\* One call of save_scan_and_rows from a caller outside the orchestrator.
\* The scan is stamped with the time of the call.
Persist(batch, attached, upsert) ==
    \E res \in {save_scan_and_rows([scans |-> scans, findings |-> findings],
                                   calls + 1, batch, attached, upsert)} :
       /\ scans' = res.db.scans
       /\ findings' = res.db.findings
       /\ calls' = calls + 1
       /\ last' = CallRecord(res, batch, attached, upsert)
       /\ UNCHANGED auditVars
       /\ UNCHANGED outerVars

PersistCall ==
    /\ calls < MaxCalls
    /\ \E batch \in Batches, attached \in BOOLEAN, upsert \in BOOLEAN :
           Persist(batch, attached, upsert)

Init == InitStore
Next == PersistCall
Spec == Init /\ [][Next]_vars

(***************************************************************************)
(* audit_file: the units are submitted to a ProcessPoolExecutor, collected *)
(* in completion order, and the loaded results are normalized and          *)
(* persisted in request order.                                             *)
(***************************************************************************)

\* What one unit can produce once its worker has run it.  returncode, stdout
\* and stderr are those of the `python -m auditor run-tool` process that
\* _invoke_run_tool starts; analyzer is the exit code of the analyzer that
\* run-tool ran (-1: it did not get to run one), which run-tool writes into
\* the result file and does not turn into its own exit code.
\*   ok              run-tool exits 0, the run result loads and normalizes
\*   failed          run-tool exits non-zero, with stderr and stdout
\*   crashed         future.result() raises
\*   unloadable      run-tool exits 0, _load_run_result raises
\*   unnormalizable  run-tool exits 0, the run result loads, parse_to_models raises
Outcomes ==
    {[kind |-> "ok", returncode |-> 0, stdout |-> "", stderr |-> "", analyzer |-> 0],
     [kind |-> "ok", returncode |-> 0, stdout |-> "", stderr |-> "", analyzer |-> 1],
     [kind |-> "failed", returncode |-> 1, stdout |-> "", stderr |-> "boom", analyzer |-> 0],
     [kind |-> "failed", returncode |-> 2, stdout |-> "usage", stderr |-> "", analyzer |-> -1],
     [kind |-> "crashed", returncode |-> 0, stdout |-> "", stderr |-> "", analyzer |-> -1],
     [kind |-> "unloadable", returncode |-> 0, stdout |-> "", stderr |-> "", analyzer |-> 0],
     [kind |-> "unnormalizable", returncode |-> 0, stdout |-> "", stderr |-> "", analyzer |-> 0]}

\* parse_to_models on the loaded result of a tool: the scan (absent when the
\* parser skips the target) and the rows, built with scan=scan_row.
Parsed(tool) ==
    CASE tool = "bandit" -> [scan |-> TRUE, rows |-> <<F1, F2>>]
      [] tool = "semgrep" -> [scan |-> TRUE, rows |-> <<F3>>]
      [] tool = "mypy" -> [scan |-> FALSE, rows |-> <<>>]

\* The database an audit starts on: empty, or holding what an earlier audit
\* of the project stored for bandit.
EarlierScan == save_scan_and_rows([scans |-> {}, findings |-> {}], 1, <<F1>>, TRUE, FALSE)

InitAudit ==
    /\ \E seeded \in BOOLEAN :
          /\ scans = IF seeded THEN EarlierScan.db.scans ELSE {}
          /\ findings = IF seeded THEN EarlierScan.db.findings ELSE {}
          /\ calls = IF seeded THEN 1 ELSE 0
    /\ last = NoCall
    /\ AuditIdle

Emit(evs, event, tool) == Append(evs, <<event, tool>>)

\* The pool as it would be if it were sized to the number of units only.
MaxWorkersUnbounded(jobs) == Len(tools)

\* max(1, min(jobs, len(jobs_to_run)))
MaxWorkers(jobs) ==
    LET m == IF jobs < Len(tools) THEN jobs ELSE Len(tools)
    IN IF m < 1 THEN 1 ELSE m

\* Lines 618-652: every unit is submitted and announced.
RECURSIVE SubmittedEvents(_)
SubmittedEvents(k) ==
    IF k = 0 THEN <<>> ELSE Append(SubmittedEvents(k - 1), <<"submitted", tools[k]>>)

StartAudit(jobs, stop_on_error) ==
    /\ pc = "idle"
    /\ pc' = "collect"
    /\ cfg' = [jobs |-> jobs, stop_on_error |-> stop_on_error,
               max_workers |-> MaxWorkers(jobs)]
    /\ fut' = [t \in ToolSet |-> "pending"]
    /\ events' = SubmittedEvents(Len(tools))
    /\ UNCHANGED <<outcome, collected, results, errors, summaries, idx, persisted,
                   inflight, exit_code>>
    /\ UNCHANGED storeVars
    /\ UNCHANGED outerVars

\* The units a shutdown would wait for if it waited for cancelled units too.
RunningOrCancelled == {t \in ToolSet : fut[t] \in {"running", "cancelled"}}

\* The units executing in a worker.
Running == {t \in ToolSet : fut[t] = "running"}

\* The pool hands the oldest pending unit to a free worker.
WorkerStart(t) ==
    /\ pc \in {"collect", "shutdown"}
    /\ fut[t] = "pending"
    /\ \A k \in DOMAIN tools : tools[k] = t => \A j \in 1..(k - 1) : fut[tools[j]] # "pending"
    /\ Cardinality(Running) < cfg.max_workers
    /\ fut' = [fut EXCEPT ![t] = "running"]
    /\ UNCHANGED <<pc, cfg, outcome, collected, results, errors, events, summaries,
                   idx, persisted, inflight, exit_code>>
    /\ UNCHANGED storeVars
    /\ UNCHANGED outerVars

\* _invoke_run_tool ends in its worker.
WorkerFinish(t, o) ==
    /\ pc \in {"collect", "shutdown"}
    /\ fut[t] = "running"
    /\ fut' = [fut EXCEPT ![t] = "finished"]
    /\ outcome' = [outcome EXCEPT ![t] = o]
    /\ UNCHANGED <<pc, cfg, collected, results, errors, events, summaries,
                   idx, persisted, inflight, exit_code>>
    /\ UNCHANGED storeVars
    /\ UNCHANGED outerVars

\* (stderr or stdout or "unknown error")
Message(o) ==
    IF o.stderr # "" THEN o.stderr ELSE IF o.stdout # "" THEN o.stdout ELSE "unknown error"

\* The entry errors[tool] gets for an outcome that is not a success.
ErrorOf(t, o) ==
    CASE o.kind = "crashed" -> [tool |-> t, exit |-> -1, message |-> "repr(exc)"]
      [] o.kind = "failed" -> [tool |-> t, exit |-> o.returncode, message |-> Message(o)]
      [] o.kind = "unloadable" -> [tool |-> t, exit |-> o.returncode, message |-> "str(exc)"]

\* The loop body as it would be if a crash were logged and not announced.
EventOfUnannounced(o) ==
    CASE o.kind = "crashed" -> "logged"
      [] o.kind = "failed" -> "failed"
      [] o.kind = "unloadable" -> "parsing_failed"
      [] OTHER -> "finished"

\* The event the loop body emits for a collected unit.
EventOf(o) ==
    CASE o.kind = "crashed" -> "crashed"
      [] o.kind = "failed" -> "failed"
      [] o.kind = "unloadable" -> "parsing_failed"
      [] OTHER -> "finished"

SeqToSet(sq) == {sq[i] : i \in DOMAIN sq}

\* _flush_summary: what the summary document would hold.
Summary(res, errs) == [tools_ok |-> res, tools_failed |-> SeqToSet(errs)]

\* The abort as it would be without the cancel loop.
CancelNone(f) == f

\* for f in future_map: if not f.done(): f.cancel() -- a pending future is
\* cancelled, a running one is not.
CancelPending(f) == [t \in ToolSet |-> IF f[t] = "pending" THEN "cancelled" ELSE f[t]]

Bad(o) == o.kind \in {"crashed", "failed", "unloadable"}

\* Lines 655-773: as_completed yields a finished unit and the loop body runs.
Collect(t) ==
    LET o == outcome[t]
        errs == IF Bad(o) THEN Append(errors, ErrorOf(t, o)) ELSE errors
        res == IF Bad(o) THEN results ELSE results \cup {t}
        abort == Bad(o) /\ cfg.stop_on_error
        done == Len(collected) + 1 = Len(tools)
    IN /\ pc = "collect"
       /\ fut[t] = "finished"
       /\ t \notin SeqToSet(collected)
       /\ collected' = Append(collected, t)
       /\ errors' = errs
       /\ results' = res
       /\ events' = Emit(events, EventOf(o), t)
       /\ summaries' = IF abort THEN Append(summaries, Summary(res, errs)) ELSE summaries
       /\ fut' = IF abort THEN CancelPending(fut) ELSE fut
       /\ inflight' = IF abort THEN Running ELSE inflight
       /\ pc' = IF abort THEN "shutdown" ELSE IF done THEN "persist" ELSE "collect"
       /\ idx' = IF ~abort /\ done THEN 1 ELSE idx
       /\ UNCHANGED <<cfg, outcome, persisted, exit_code>>
       /\ UNCHANGED storeVars
       /\ UNCHANGED outerVars

\* The exit as it would be with shutdown(wait=False).
ShutdownNoWait == TRUE

\* The executor's __exit__ is shutdown(wait=True): the error leaves audit_file
\* once no unit is running any more.
ShutdownWaits == Running = {}

Shutdown ==
    /\ pc = "shutdown"
    /\ ShutdownWaits
    /\ pc' = "raised"
    /\ exit_code' = 1
    /\ UNCHANGED <<cfg, fut, outcome, collected, results, errors, events, summaries,
                   idx, persisted, inflight>>
    /\ UNCHANGED storeVars
    /\ UNCHANGED outerVars

\* The persist loop as it would be if it followed the order of completion.
CompletionOrder == collected

\* for tool in tools
PersistOrder == tools

\* Lines 789-801, one turn of the persist loop.
PersistTool ==
    /\ pc = "persist"
    /\ idx <= Len(tools)
    /\ LET t == PersistOrder[idx]
           started == Emit(events, "processing_started", t)
       IN IF t \notin results
          THEN /\ events' = started
               /\ idx' = idx + 1
               /\ UNCHANGED <<pc, persisted, exit_code>>
               /\ UNCHANGED storeVars
          ELSE IF outcome[t].kind = "unnormalizable"
          THEN /\ events' = started
               /\ pc' = "raised"
               /\ exit_code' = 1
               /\ UNCHANGED <<idx, persisted>>
               /\ UNCHANGED storeVars
          ELSE \E res \in {save_scan_and_rows([scans |-> scans, findings |-> findings],
                                              calls + 1, Parsed(t).rows, Parsed(t).scan,
                                              FALSE)} :
               /\ scans' = res.db.scans
               /\ findings' = res.db.findings
               /\ calls' = calls + 1
               /\ last' = CallRecord(res, Parsed(t).rows, Parsed(t).scan, FALSE)
               /\ IF res.raised # "none"
                  THEN /\ events' = started
                       /\ pc' = "raised"
                       /\ exit_code' = 1
                       /\ UNCHANGED <<idx, persisted>>
                  ELSE /\ events' = Emit(started, "processing_finished", t)
                       /\ persisted' = persisted \cup {t}
                       /\ idx' = idx + 1
                       /\ UNCHANGED <<pc, exit_code>>
    /\ UNCHANGED <<cfg, fut, outcome, collected, results, errors, summaries, inflight>>
    /\ UNCHANGED outerVars

\* Lines 803-814, and the audit command returning.
Finish ==
    /\ pc = "persist"
    /\ idx > Len(tools)
    /\ summaries' = Append(summaries, Summary(results, errors))
    /\ events' = IF errors # <<>> /\ ~cfg.stop_on_error
                 THEN Append(events, <<"completed_with_errors",
                                       [i \in DOMAIN errors |-> errors[i].tool]>>)
                 ELSE Append(events, <<"completed", <<>>>>)
    /\ pc' = "returned"
    /\ exit_code' = 0
    /\ UNCHANGED <<cfg, fut, outcome, collected, results, errors, idx, persisted, inflight>>
    /\ UNCHANGED storeVars
    /\ UNCHANGED outerVars

NextAudit ==
    \/ \E jobs \in 0..MaxJobs, stop_on_error \in BOOLEAN : StartAudit(jobs, stop_on_error)
    \/ \E t \in ToolSet : WorkerStart(t)
    \/ \E t \in ToolSet, o \in Outcomes : WorkerFinish(t, o)
    \/ \E t \in ToolSet : Collect(t)
    \/ Shutdown
    \/ PersistTool
    \/ Finish

SpecAudit == InitAudit /\ [][NextAudit]_vars

\* The same with progress: a run-tool process ends (the analyzer it runs
\* exits or is stopped by its timeout), the pool hands a waiting unit to a
\* free worker, and the thread of audit_file takes its next step when it can.
SpecAuditLive == SpecAudit /\ WF_vars(NextAudit)

(***************************************************************************)
(* Observations on the last persist call.                                  *)
(***************************************************************************)
Called == last.n > 0
Returned == Called /\ last.raised = "none"

\* The durable rows by identity: (table, pk).
Keys(rows) == {<<r.table, r.pk>> : r \in rows}

\* Rows of the call whose pk was already durable when the call began.
Existing == {i \in DOMAIN last.rows : Conflict(last.findingsBefore, last.rows[i])}
Fresh == DOMAIN last.rows \ Existing

\* Two rows of the call with one pk.
InBatchDuplicate ==
    \E i, j \in DOMAIN last.rows :
        i < j /\ last.rows[i].table = last.rows[j].table /\ last.rows[i].pk = last.rows[j].pk

\* The call was made the way audit_file makes it: upsert left at its default.
AsAuditFile == Called /\ ~last.upsert

\* C1: idempotent re-scan.  When a call repeats the batch of the call before
\* it, the Finding rows, by pk, stay as the first call left them and the
\* number of ScanMetadata rows grows.
C1_IdempotentRescan ==
    [][(/\ last.n > 0
        /\ last'.n = last.n + 1
        /\ ~last.upsert /\ ~last'.upsert
        /\ last'.batch = last.batch
        /\ last'.attached = last.attached)
       => (/\ Keys(findings') = Keys(findings)
           /\ Cardinality(scans') > Cardinality(scans))]_vars

\* C2: a primary-key conflict is a no-op, not an error.  A call given a row
\* whose pk is already durable returns normally and leaves every durable row
\* as it was, scan_id included.
C2_ConflictIsNoOp ==
    (AsAuditFile /\ Existing # {})
        => (last.raised = "none" /\ last.findingsBefore \subseteq findings)

\* C3: in the per-row fallback only the conflicting rows are skipped.  After
\* a call that returns, every row of the batch whose pk was new is durable.
C3_NewRowsDurable ==
    (AsAuditFile /\ Returned /\ Existing # {})
        => \A i \in Fresh : <<last.rows[i].table, last.rows[i].pk>> \in Keys(findings)

\* C4: within-batch dedup.  A batch holding the same identity twice does not
\* make the call fail, and the rows it adds have distinct pks, also when the
\* rows were built attached to the scan.
C4_BatchDuplicatesDropped ==
    (AsAuditFile /\ InBatchDuplicate /\ Existing = {})
        => (/\ last.raised = "none"
            /\ \A i \in DOMAIN last.rows :
                   <<last.rows[i].table, last.rows[i].pk>> \in Keys(findings))

\* C5: every durable Finding row has a non-empty pk, the one build_pk gives
\* it, and no two rows of one table share a pk.
C5_PkPresentAndUnique ==
    \A r \in findings :
        /\ Truthy(r.pk)
        /\ r.pk = PkTable[[r EXCEPT !.pk = None]]
        /\ \A q \in findings : (q.table = r.table /\ q.pk = r.pk) => q = r

\* A call that came without pks has left two rows in one table.
C5_Witness ==
    /\ Returned
    /\ \A i \in DOMAIN last.batch : ~Truthy(last.batch[i].pk)
    /\ \E r, q \in findings :
           /\ r # q /\ r.table = q.table
           /\ \E i \in DOMAIN last.rows : last.rows[i] = r

\* Equal table, root, path and identity columns.
SameIdentity(r, q) ==
    /\ r.table = q.table /\ r.root = q.root /\ r.file_path = q.file_path
    /\ \A k \in DOMAIN PkCols : r[PkCols[k]] = q[PkCols[k]]

\* C6: the identity hash does not depend on the scan.  A row of the last call
\* and a durable row with equal identity fields have the same pk, whatever
\* scan each belongs to and whatever their other columns hold.
C6_PkIgnoresScan ==
    \A r \in findings : \A i \in DOMAIN last.rows :
        SameIdentity(r, last.rows[i]) => r.pk = last.rows[i].pk

\* A row of the last call meets its own identity, stored by an earlier scan
\* with other text in a column outside the identity.
C6_Witness ==
    /\ Called
    /\ \E r \in findings : \E i \in DOMAIN last.rows :
           /\ SameIdentity(r, last.rows[i])
           /\ r.scan_id # last.rows[i].scan_id
           /\ r.code # last.rows[i].code

\* C7: ScanMetadata is append-only.  No call removes or changes a scan row,
\* and every call that returns has added exactly one.
C7_ScanAppendOnly ==
    Called =>
        /\ last.scansBefore \subseteq scans
        /\ Returned => Cardinality(scans) = Cardinality(last.scansBefore) + 1

(***************************************************************************)
(* Observations on a run of audit_file.                                    *)
(***************************************************************************)
\* A unit failed, crashed or did not load while stop_on_error was set.
Aborted == cfg.stop_on_error /\ errors # <<>>

Over == pc \in {"returned", "raised"}

FailureEvents == {"failed", "crashed", "parsing_failed"}

C9_InFlightFinishUncollected ==
    (Aborted /\ pc = "raised") =>
        /\ \A t \in inflight :
               /\ fut[t] = "finished"
               /\ outcome[t].kind # "none"
               /\ t \notin SeqToSet(collected)
               /\ t \notin results
        /\ persisted = {}
        /\ last = NoCall

\* The error has reached the caller of a run aborted with a unit in flight.
C9_Witness ==
    /\ Aborted
    /\ pc = "raised"
    /\ inflight # {}

\* The tools a run found failed, crashed or unloadable.
FailedTools == {t \in ToolSet : Bad(outcome[t])}

\* C10: partial failure without stop-on-error.  A run in which some units
\* failed, and every other unit's output loads and normalizes, returns: the
\* rows of every successful tool are persisted, errors and the summary list
\* exactly the failed tools with exit code and message, the last event is
\* completed_with_errors naming them, and the audit command exits 0.
C10_PartialFailureReturns ==
    (/\ Over
     /\ ~cfg.stop_on_error
     /\ errors # <<>>
     /\ \A t \in ToolSet : outcome[t].kind # "unnormalizable")
    =>
        /\ pc = "returned"
        /\ exit_code = 0
        /\ persisted = ToolSet \ FailedTools
        /\ SeqToSet(errors) = {ErrorOf(t, outcome[t]) : t \in FailedTools}
        /\ Len(errors) = Cardinality(FailedTools)
        /\ summaries[Len(summaries)].tools_failed = SeqToSet(errors)
        /\ events[Len(events)][1] = "completed_with_errors"
        /\ SeqToSet(events[Len(events)][2]) = FailedTools

\* No persist call of the run has raised.
StoreQuiet == ~(Called /\ last.raised # "none")

\* C11: malformed output is recovered per unit.  When a collected run result
\* does not normalize and stop_on_error is off, the run returns: the unit is
\* marked parsing_failed and stores nothing, and every tool whose result does
\* normalize is persisted.
C11_MalformedOutputRecovered ==
    (/\ Over
     /\ ~cfg.stop_on_error
     /\ StoreQuiet
     /\ \E t \in ToolSet : outcome[t].kind = "unnormalizable")
    =>
        /\ pc = "returned"
        /\ \A t \in ToolSet :
               outcome[t].kind = "unnormalizable"
                   => (<<"parsing_failed", t>> \in SeqToSet(events) /\ t \notin persisted)
        /\ \A t \in ToolSet : outcome[t].kind = "ok" => t \in persisted

\* C12: failure classification.  A collected unit whose analyzer exited with
\* a non-zero code is in errors with that code, has emitted failed, and is
\* neither in results nor persisted; a unit whose analyzer exited 0 has not
\* emitted failed.
C12_FailureClassification ==
    \A t \in SeqToSet(collected) :
        /\ outcome[t].analyzer > 0 =>
               /\ \E i \in DOMAIN errors :
                      errors[i].tool = t /\ errors[i].exit = outcome[t].analyzer
               /\ <<"failed", t>> \in SeqToSet(events)
               /\ t \notin results
               /\ t \notin persisted
        /\ outcome[t].analyzer = 0 => <<"failed", t>> \notin SeqToSet(events)

\* The same for the exit code audit_file sees, that of the run-tool process:
\* non-zero is failed with that code and the message from stderr, else
\* stdout; zero is never failed.
ExitCodeClassified ==
    \A t \in SeqToSet(collected) :
        /\ (outcome[t].kind # "crashed" /\ outcome[t].returncode # 0) =>
               /\ ErrorOf(t, outcome[t]) \in SeqToSet(errors)
               /\ <<"failed", t>> \in SeqToSet(events)
               /\ t \notin results
               /\ t \notin persisted
        /\ outcome[t].returncode = 0 => <<"failed", t>> \notin SeqToSet(events)

TerminalEvents == {"finished", "failed", "crashed", "parsing_failed"}

\* The positions in events of a tool's submitted event, and of its terminal
\* events.
SubmittedAt(t) == {i \in DOMAIN events : events[i][1] = "submitted" /\ events[i][2] = t}
TerminalAt(t) == {i \in DOMAIN events : events[i][1] \in TerminalEvents /\ events[i][2] = t}

\* The as_completed loop has been left.
CollectionOver == pc \in {"persist", "returned", "raised"}

\* C13: per-tool lifecycle.  In a run with stop_on_error off every requested
\* tool has emitted submitted exactly once, at most one terminal event, and
\* that after its submitted event; once the collection loop is over it has
\* emitted exactly one terminal event.
C13_PerToolLifecycle ==
    (pc # "idle" /\ ~cfg.stop_on_error) =>
        \A t \in ToolSet :
            /\ Cardinality(SubmittedAt(t)) = 1
            /\ Cardinality(TerminalAt(t)) <= 1
            /\ \A i \in TerminalAt(t) : \A j \in SubmittedAt(t) : j < i
            /\ CollectionOver => Cardinality(TerminalAt(t)) = 1

\* A run without stop_on_error returned after collecting the units in an
\* order other than the request order, one of them crashed and one failed.
C13_Witness ==
    /\ pc = "returned"
    /\ ~cfg.stop_on_error
    /\ collected[1] = tools[3]
    /\ \E i, j \in DOMAIN events : events[i][1] = "crashed" /\ events[j][1] = "failed"

(***************************************************************************)
(* Pure functions.  Each is called once on arguments drawn from a bounded  *)
(* set; fcall holds the call and fret its result.                          *)
(***************************************************************************)
FnIdle == fcall = NoFn

\* The call of a pure function leaves the store and the orchestrator alone.
FnCall(call, ret) ==
    /\ FnIdle
    /\ fcall' = call
    /\ fret' = ret
    /\ UNCHANGED storeVars
    /\ UNCHANGED auditVars
    /\ UNCHANGED cmd

(***************************************************************************)
(* AuditTool._run: the analyzer process under a timeout.                   *)
(***************************************************************************)
MaxStream == 2
MaxTimeout == 2

Bytes(b) == [t |-> "bytes", v |-> b]

\* The texts of at most MaxStream tokens over an alphabet.
Texts(alphabet) == UNION {[1..n -> alphabet] : n \in 0..MaxStream}

\* What a stream of the analyzer can hold: "{}" is a JSON document, "{" the
\* start of one, " " white space, "\\xff" a byte that is not UTF-8.
StdoutStr == {S(x) : x \in Texts({"{}", "{", "out", " "})}
StdoutCaptured == {None} \cup StdoutStr \cup {Bytes(x) : x \in Texts({"{}", "\\xff"})}
StderrStr == {S(<<>>), S(<<"err">>)}
StderrCaptured == {None} \cup StderrStr \cup {Bytes(<<"err", "\\xff">>)}

\* What subprocess.run does: the process exits, the timeout expires with the
\* output captured so far, or the process cannot be started.
ProcBehaviours ==
    [kind : {"exit"}, returncode : {0, 1}, stdout : StdoutStr, stderr : StderrStr]
    \cup [kind : {"timeout"}, stdout : StdoutCaptured, stderr : StderrCaptured]
    \cup {[kind |-> "oserror"]}

\* bytes.decode("utf-8", "ignore"): the bytes that do not decode are dropped.
Decode(b) == SelectSeq(b, LAMBDA c : c # "\\xff")

\* if isinstance(x, bytes): x = x.decode("utf-8", "ignore"), then (x or "")
CapturedText(x) ==
    CASE x.t = "none" -> <<>>
      [] x.t = "bytes" -> Decode(x.v)
      [] x.t = "str" -> x.v

\* f"\n[TIMEOUT after {self.timeout_s}s]"
TimeoutMarker(timeout_s) == <<"\n", "[TIMEOUT after ">> \o Str(timeout_s) \o <<"s]">>

\* str.strip() for the white-space token.
RECURSIVE LStrip(_)
LStrip(s) == IF s # <<>> /\ Head(s) = " " THEN LStrip(Tail(s)) ELSE s
RECURSIVE RStrip(_)
RStrip(s) == IF s # <<>> /\ s[Len(s)] = " " THEN RStrip(SubSeq(s, 1, Len(s) - 1)) ELSE s
Strip(s) == RStrip(LStrip(s))

\* Best-effort JSON parse: only when the text looks like JSON, None when
\* json.loads fails.
BestEffortJson(stdout) ==
    LET txt == Strip(stdout)
    IN IF txt # <<>> /\ Head(txt) \in {"{}", "{"}
       THEN (IF txt = <<"{}">> THEN [t |-> "json", v |-> txt] ELSE None)
       ELSE None

ToolRunResult(returncode, stdout, stderr, parsed_json) ==
    [raised |-> FALSE, returncode |-> returncode, stdout |-> stdout,
     stderr |-> stderr, parsed_json |-> parsed_json]

Raises == [raised |-> TRUE]

\* _run as it would be without the TimeoutExpired handler.
AuditTool_run_unhandled(timeout_s, proc) ==
    CASE proc.kind = "oserror" -> Raises
      [] proc.kind = "timeout" -> Raises
      [] proc.kind = "exit" ->
            ToolRunResult(proc.returncode, proc.stdout.v, proc.stderr.v,
                          BestEffortJson(proc.stdout.v))

\* AuditTool._run
AuditTool_run(timeout_s, proc) ==
    CASE proc.kind = "oserror" -> Raises
      [] proc.kind = "timeout" ->
            ToolRunResult(124, CapturedText(proc.stdout),
                          CapturedText(proc.stderr) \o TimeoutMarker(timeout_s), None)
      [] proc.kind = "exit" ->
            ToolRunResult(proc.returncode, proc.stdout.v, proc.stderr.v,
                          BestEffortJson(proc.stdout.v))

\* self.timeout_s is always set: timeout_s or DEFAULT_TIMEOUT_S.
RunCall ==
    /\ FnIdle
    /\ \E timeout_s \in {I(n) : n \in 1..MaxTimeout}, proc \in ProcBehaviours :
           FnCall([fn |-> "_run", timeout_s |-> timeout_s, proc |-> proc],
                  AuditTool_run(timeout_s, proc))

(***************************************************************************)
(* JscpdTool.parse, in tools/common and in tools/tsx: one finding per      *)
(* clone of the report, a clone reported in both orders counted once.     *)
(***************************************************************************)
MaxClones == 3

\* The directory jscpd ran in: Path(result.cwd).resolve().
Repo == <<"/", "w">>

\* One side of a clone: its file name, the line of startLoc and endLoc, and
\* the start and end of the older report format.
Inst(name, sline, start, eline, end) ==
    [name |-> name, sline |-> sline, start |-> start, eline |-> eline, end |-> end]

InstA == Inst(S(<<"a.ts">>), I(1), None, I(5), None)
InstAabs == Inst(S(<<"/", "w", "/", "a.ts">>), I(1), None, I(5), None)
InstB == Inst(S(<<"b.ts">>), None, I(10), None, I(14))
InstC == Inst(S(<<"/", "x", "/", "c.ts">>), I(1), None, I(5), None)
InstNone == Inst(None, None, None, None, None)

Clone(first, second, fragment) ==
    [first |-> first, second |-> second, fragment |-> fragment]

\* The clones a report can hold.
ClonePool ==
    {Clone(InstA, InstB, None), Clone(InstB, InstA, None), Clone(InstB, InstAabs, None),
     Clone(InstA, InstC, S(<<"x">>)), Clone(InstC, InstA, S(<<"x">>)),
     Clone(InstA, InstA, None), Clone(InstNone, InstNone, None)}

CloneLists == UNION {[1..n -> ClonePool] : n \in 0..MaxClones}

\* The constructor defaults, which every caller keeps.
EmitBothSides == FALSE
AllowIntraFile == TRUE

IsPrefix(a, b) == Len(a) <= Len(b) /\ SubSeq(b, 1, Len(a)) = a

\* _rel: the name relative to the repository, the name as given when it is
\* not below the repository, None for no name.
Rel(root, name) ==
    IF ~Truthy(name) THEN None
    ELSE LET r == AbsSegs(root)
             q == AbsSegs(name.v)
         IN IF IsPrefix(r, q)
            THEN (IF Len(q) = Len(r) THEN S(<<".">>)
                  ELSE S(JoinSegs(SubSeq(q, Len(r) + 1, Len(q)))))
            ELSE name

\* _span: the line of the Loc when it is an int, else the older field.
SpanOf(inst) ==
    [start |-> IF inst.sline.t = "int" THEN inst.sline ELSE inst.start,
     end |-> IF inst.eline.t = "int" THEN inst.eline ELSE inst.end]

\* tools/tsx: (loc.line or inst.start or None), then int() or None.
LineOf(line, older) ==
    IF Truthy(line) THEN line ELSE IF Truthy(older) THEN older ELSE None

\* The names in the order Python compares str.
NameOrder == << <<>>, <<"/", "x", "/", "c.ts">>, <<"a.ts">>, <<"b.ts">> >>
NameRank(text) == CHOOSE i \in DOMAIN NameOrder : NameOrder[i] = text

\* (file or "", int(start or 0), int(end or 0))
SideKey(file, start, end) ==
    [file |-> OrEmpty(file),
     start |-> IF Truthy(start) THEN start.v ELSE 0,
     end |-> IF Truthy(end) THEN end.v ELSE 0]

\* Tuple comparison of two keys.
KeyLeq(k1, k2) ==
    \/ NameRank(k1.file) < NameRank(k2.file)
    \/ /\ k1.file = k2.file
       /\ \/ k1.start < k2.start
          \/ k1.start = k2.start /\ k1.end <= k2.end

\* The key as it would be without the sort.
AsReportedPair(k1, k2) == <<k1, k2>>

\* tuple(sorted([a_key, b_key]))
SortedPair(k1, k2) == IF KeyLeq(k1, k2) THEN <<k1, k2>> ELSE <<k2, k1>>

\* hashlib.sha1(...).hexdigest(), taken as injective.
Sha1Hex(text) == <<"sha1:">> \o text

\* _fp_key
FpKey(k1, k2, fragment) ==
    LET pair == SortedPair(k1, k2)
        side(k) == k.file \o <<":", ToString(k.start), "-", ToString(k.end)>>
        base == side(pair[1]) \o <<"|">> \o side(pair[2])
    IN Sha1Hex(IF Truthy(fragment)
               THEN base \o <<"|">> \o Sha1Hex(fragment.v)
               ELSE base)

DuplicateFinding(file, line, end_line, c_file, c_start, c_end, fingerprint) ==
    [rule_id |-> "duplicate", file |-> file, line |-> line, end_line |-> end_line,
     counterpart |-> [file |-> c_file, start |-> c_start, end |-> c_end],
     fingerprint |-> fingerprint]

\* tools/common/jscpd.py, JscpdTool.parse: the loop over the clones.
RECURSIVE ParseCommon(_, _, _)
ParseCommon(clones, seen_pairs, found) ==
    IF clones = <<>> THEN found
    ELSE LET clone == Head(clones)
             a_file == Rel(Repo, clone.first.name)
             b_file == Rel(Repo, clone.second.name)
             a == SpanOf(clone.first)
             b == SpanOf(clone.second)
             a_key == SideKey(a_file, a.start, a.end)
             b_key == SideKey(b_file, b.start, b.end)
             key == SortedPair(a_key, b_key)
             \* sorted(candidate_pairs, key=(file or "", start or 0, end or 0))[0]
             a_first == KeyLeq(a_key, b_key)
             one == IF a_first
                    THEN DuplicateFinding(a_file, a.start, a.end, b_file, b.start, b.end, None)
                    ELSE DuplicateFinding(b_file, b.start, b.end, a_file, a.start, a.end, None)
             both == <<DuplicateFinding(a_file, a.start, a.end, b_file, b.start, b.end, None),
                       DuplicateFinding(b_file, b.start, b.end, a_file, a.start, a.end, None)>>
         IN IF ~AllowIntraFile /\ a_file = b_file
            THEN ParseCommon(Tail(clones), seen_pairs, found)
            ELSE IF ~EmitBothSides /\ key \in seen_pairs
            THEN ParseCommon(Tail(clones), seen_pairs, found)
            ELSE ParseCommon(Tail(clones), seen_pairs \cup {key},
                             IF EmitBothSides THEN found \o both ELSE Append(found, one))

\* tools/tsx/jscpd.py, JscpdTool.parse: the loop over data["duplicates"].
RECURSIVE ParseTsx(_, _, _)
ParseTsx(dups, seen_keys, found) ==
    IF dups = <<>> THEN found
    ELSE LET d == Head(dups)
             a_file == Rel(Repo, d.first.name)
             b_file == Rel(Repo, d.second.name)
             a_sline == LineOf(d.first.sline, d.first.start)
             a_eline == LineOf(d.first.eline, d.first.end)
             b_sline == LineOf(d.second.sline, d.second.start)
             b_eline == LineOf(d.second.eline, d.second.end)
             key == FpKey(SideKey(a_file, a_sline, a_eline),
                          SideKey(b_file, b_sline, b_eline), d.fragment)
         IN IF key \in seen_keys
            THEN ParseTsx(Tail(dups), seen_keys, found)
            ELSE ParseTsx(Tail(dups), seen_keys \cup {key},
                          Append(found, DuplicateFinding(a_file, a_sline, a_eline,
                                                         b_file, b_sline, b_eline, S(key))))

JscpdParse(parser, clones) ==
    IF parser = "common" THEN ParseCommon(clones, {}, <<>>) ELSE ParseTsx(clones, {}, <<>>)

JscpdCall ==
    /\ FnIdle
    /\ \E parser \in {"common", "tsx"}, clones \in CloneLists :
           FnCall([fn |-> "jscpd.parse", parser |-> parser, clones |-> clones],
                  JscpdParse(parser, clones))

(***************************************************************************)
(* The path helpers of core/models/parsers/_shared.py.                     *)
(***************************************************************************)
MaxPaths == 2

\* Path(text).parts below the root: the segments, without "." and without
\* the empty pieces of "//" and of a trailing "/".
PathParts(text) == SelectSeq(Split(text), LAMBDA seg : seg # <<".">>)

\* str(Path(text))
StrPath(text) ==
    IF PathParts(text) = <<>> THEN (IF IsAbs(text) THEN <<"/">> ELSE <<".">>)
    ELSE (IF IsAbs(text) THEN <<"/">> ELSE <<>>) \o JoinSegs(PathParts(text))

\* Path(text).name
PathName(text) ==
    IF PathParts(text) = <<>> THEN <<>> ELSE PathParts(text)[Len(PathParts(text))]

\* [p for p in paths if p]
NonEmpty(paths) == SelectSeq(paths, LAMBDA q : q # <<>>)

\* The longest common prefix of the segment lists.
RECURSIVE CommonSegs(_)
CommonSegs(lists) ==
    IF Len(lists) = 1 THEN Head(lists)
    ELSE LET rest == CommonSegs(Tail(lists))
         IN SubSeq(rest, 1, CommonLen(Head(lists), rest))

\* os.path.commonpath: ValueError when absolute and relative paths are mixed.
CommonPathFails(items) == \E i, j \in DOMAIN items : IsAbs(items[i]) /\ ~IsAbs(items[j])

CommonPath(items) ==
    (IF IsAbs(items[1]) THEN <<"/">> ELSE <<>>)
        \o JoinSegs(CommonSegs([i \in DOMAIN items |-> PathParts(items[i])]))

\* str(Path(text).resolve().parent)
ResolvedParent(text) ==
    LET segs == AbsSegs(text)
    IN <<"/">> \o JoinSegs(IF segs = <<>> THEN segs ELSE SubSeq(segs, 1, Len(segs) - 1))

\* common_root
common_root(paths) ==
    LET items == NonEmpty(paths)
    IN IF items = <<>> THEN <<>>
       ELSE IF CommonPathFails(items) THEN ResolvedParent(items[1])
       ELSE CommonPath(items)

\* determine_root_label
determine_root_label(cwd, paths) ==
    IF Truthy(cwd)
    THEN (IF PathName(cwd.v) # <<>> THEN PathName(cwd.v) ELSE StrPath(cwd.v))
    ELSE LET fallback == common_root(paths)
         IN IF fallback # <<>> THEN PathName(fallback) ELSE <<>>

LabelCwds ==
    {None, S(<<>>), S(<<"/", "proj">>), S(<<"/">>), S(<<"sub", "/", "proj", "/">>)}

LabelPaths ==
    {<<>>, <<"/", "r", "/", "a", "/", "x.py">>, <<"/", "r", "/", "b", "/", "y.py">>,
     <<"/", "q", "/", "z.py">>, <<"a", "/", "x.py">>, <<"b", "/", "y.py">>,
     <<"a", "/", "w.py">>}

RootLabelCall ==
    /\ FnIdle
    /\ \E cwd \in LabelCwds, paths \in UNION {[1..n -> LabelPaths] : n \in 0..MaxPaths} :
           FnCall([fn |-> "determine_root_label", cwd |-> cwd, paths |-> paths],
                  determine_root_label(cwd, paths))

\* os.path.normpath on the segments of a path: "." is dropped, ".." removes
\* the segment before it, is dropped at the root and kept at the front of a
\* relative path.
RECURSIVE NormPathSegs(_, _, _)
NormPathSegs(segs, acc, abs) ==
    IF segs = <<>> THEN acc
    ELSE IF Head(segs) = <<".">> THEN NormPathSegs(Tail(segs), acc, abs)
    ELSE IF Head(segs) = <<"..">>
         THEN (IF acc # <<>> /\ acc[Len(acc)] # <<"..">>
               THEN NormPathSegs(Tail(segs), SubSeq(acc, 1, Len(acc) - 1), abs)
               ELSE IF abs THEN NormPathSegs(Tail(segs), acc, abs)
               ELSE NormPathSegs(Tail(segs), Append(acc, Head(segs)), abs))
         ELSE NormPathSegs(Tail(segs), Append(acc, Head(segs)), abs)

\* os.path.basename(os.path.normpath(text)): "" for "/", "." for a path that
\* normalizes to nothing.
NormBaseName(text) ==
    LET segs == NormPathSegs(Split(text), <<>>, IsAbs(text))
    IN IF segs # <<>> THEN segs[Len(segs)]
       ELSE IF IsAbs(text) THEN <<>> ELSE <<".">>

\* The first position of folder in parts from position i on; 0 when there
\* is none.
RECURSIVE FirstIndexOf(_, _, _)
FirstIndexOf(parts, folder, i) ==
    IF i > Len(parts) THEN 0
    ELSE IF parts[i] = folder THEN i
    ELSE FirstIndexOf(parts, folder, i + 1)

\* indices[-1]: the last position of folder in parts, searched from
\* position i down; 0 when there is none.
RECURSIVE LastIndexOf(_, _, _)
LastIndexOf(parts, folder, i) ==
    IF i = 0 THEN 0
    ELSE IF parts[i] = folder THEN i
    ELSE LastIndexOf(parts, folder, i - 1)

\* The clipping from the first occurrence of the folder name.
strip_before_first(abs_path, start_root) ==
    IF ~Truthy(start_root) THEN abs_path
    ELSE LET start_folder == NormBaseName(start_root.v)
             parts == PathParts(abs_path)
             start_index == FirstIndexOf(parts, start_folder, 1)
         IN IF start_index = 0 THEN abs_path
            ELSE JoinSegs(SubSeq(parts, start_index, Len(parts)))

\* strip_before_start_root
strip_before_start_root(abs_path, start_root) ==
    IF ~Truthy(start_root) THEN abs_path
    ELSE LET start_folder == NormBaseName(start_root.v)
             parts == PathParts(abs_path)
             start_index == LastIndexOf(parts, start_folder, Len(parts))
         IN IF start_index = 0 THEN abs_path
            ELSE JoinSegs(SubSeq(parts, start_index, Len(parts)))

StripPaths ==
    {<<"/", "a", "/", "proj", "/", "proj", "/", "file.py">>,
     <<"/", "a", "/", "proj", "/", "x.py">>,
     <<"/", "a", "/", "b", "/", "x.py">>,
     <<"proj", "/", "x.py">>,
     <<"/", "a", "/", ".", "/", "proj", "/", "/", "x.py">>,
     <<"/", "proj", "/", "a", "/", "proj">>,
     <<"/", "a", "/", "/", "b">>}

StripRoots ==
    {None, S(<<>>), S(<<"proj">>), S(<<"/", "z", "/", "proj", "/">>),
     S(<<"/", "a", "/", "proj", "/", "sub", "/", "..">>), S(<<"/">>), S(<<".">>),
     S(<<"/", "z", "/", "a">>), S(<<"nowhere">>)}

StripCall ==
    /\ FnIdle
    /\ \E abs_path \in StripPaths, start_root \in StripRoots :
           FnCall([fn |-> "strip_before_start_root", abs_path |-> abs_path,
                   start_root |-> start_root],
                  strip_before_start_root(abs_path, start_root))

\* relativize_path.  cwd_gone: Path.cwd() raises, the working directory of
\* the process having been removed.
relativize_path(value, cwd, cwd_gone) ==
    IF ~Truthy(value) THEN value
    ELSE IF ~Truthy(cwd) THEN S(StrPath(value.v))
    ELSE IF ~IsAbs(cwd.v) /\ cwd_gone THEN S(StrPath(value.v))
    ELSE LET base_name == IF IsAbs(cwd.v) THEN PathName(cwd.v)
                          ELSE (IF AbsSegs(cwd.v) = <<>> THEN <<>>
                                ELSE AbsSegs(cwd.v)[Len(AbsSegs(cwd.v))])
             rel == IF IsAbs(value.v) THEN RelPath(StrPath(value.v), cwd.v)
                    ELSE StrPath(value.v)
             root_label == base_name
         IN IF rel = <<".">>
            THEN S(IF root_label # <<>> THEN root_label ELSE <<".">>)
            ELSE IF root_label # <<>>
                    /\ (PathParts(rel) = <<>> \/ PathParts(rel)[1] # root_label)
            THEN S(root_label \o <<"/">> \o StrPath(rel))
            ELSE S(StrPath(rel))

RelValues ==
    {None, S(<<>>), S(<<"/", "proj", "/", "src", "/", "a.py">>), S(<<"/", "proj">>),
     S(<<"/", "proj", "/", "proj", "/", "a.py">>), S(<<"/", "other", "/", "a.py">>),
     S(<<"/", "w", "/", "proj", "/", "a.py">>),
     S(<<"src", "/", "a.py">>), S(<<"proj", "/", "src", "/", "a.py">>),
     S(<<"src", "/", "/", "a.py">>)}

RelCwds ==
    {None, S(<<>>), S(<<"/", "proj">>), S(<<"/", "proj", "/">>), S(<<"/">>),
     S(<<"proj">>)}

RelativizeCall ==
    /\ FnIdle
    /\ \E value \in RelValues, cwd \in RelCwds, cwd_gone \in BOOLEAN :
           FnCall([fn |-> "relativize_path", value |-> value, cwd |-> cwd,
                   cwd_gone |-> cwd_gone],
                  relativize_path(value, cwd, cwd_gone))

(***************************************************************************)
(* _aggregate_cc_list of core/models/parsers/radon.py: the cyclomatic      *)
(* complexity of the blocks of one file, aggregated.                       *)
(***************************************************************************)
MaxBlocks == 3

\* _RANK_ORDER
RankOrder == <<"A", "B", "C", "D", "E", "F">>

\* One block of radon's cc report: its complexity (None: the key is absent
\* or null) and its rank (None: the key is absent).
Complexities == {None, I(1), I(3)}
Ranks == {None, S("A"), S("C"), S("F"), S("Z")}
Blocks == [complexity : Complexities, rank : Ranks]
BlockLists == UNION {[1..n -> Blocks] : n \in 0..MaxBlocks}

\* _RANK_ORDER.index(r) if r in _RANK_ORDER else -1
RankIndex(r) ==
    IF \E i \in DOMAIN RankOrder : RankOrder[i] = r
    THEN (CHOOSE i \in DOMAIN RankOrder : RankOrder[i] = r) - 1
    ELSE -1

\* The comparison as it would be if the later block always won.
rank_latest(a, b) == b

\* _rank_worse
rank_worse(a, b) == IF RankIndex(a) > RankIndex(b) THEN a ELSE b

\* float(b.get("complexity", 0) or 0)
ComplexityOf(b) == IF b.complexity.t = "int" THEN b.complexity.v ELSE 0

\* str(b.get("rank", "A"))
RankOf(b) == IF b.rank.t = "none" THEN "A" ELSE b.rank.v

\* counts[r] = counts.get(r, 0) + 1
Counted(counts, r) ==
    [k \in DOMAIN counts \cup {r} |->
        IF k = r THEN (IF r \in DOMAIN counts THEN counts[r] + 1 ELSE 1) ELSE counts[k]]

\* The loop of _aggregate_cc_list over the blocks from position i on.
RECURSIVE AggregateFrom(_, _, _, _, _, _)
AggregateFrom(blocks, i, total, cc_max, counts, worst) ==
    IF i > Len(blocks)
    THEN [total |-> total, cc_max |-> cc_max, counts |-> counts, worst |-> worst]
    ELSE LET c == ComplexityOf(blocks[i])
             r == RankOf(blocks[i])
         IN AggregateFrom(blocks, i + 1, total + c, IF c > cc_max THEN c ELSE cc_max,
                          Counted(counts, r), rank_worse(worst, r))

\* _aggregate_cc_list; cc_avg is total / n as numerator and denominator.
aggregate_cc_list(blocks) ==
    LET acc == AggregateFrom(blocks, 1, 0, 0, [k \in {} |-> 0], "A")
        n == IF Len(blocks) = 0 THEN 1 ELSE Len(blocks)
    IN [cc_blocks |-> Len(blocks), cc_total |-> acc.total, cc_max |-> acc.cc_max,
        cc_avg |-> <<acc.total, n>>, cc_worst_rank |-> acc.worst,
        cc_rank_counts |-> acc.counts]

AggregateCall ==
    /\ FnIdle
    /\ \E blocks \in BlockLists :
           FnCall([fn |-> "_aggregate_cc_list", blocks |-> blocks], aggregate_cc_list(blocks))

(***************************************************************************)
(* ResultsBase.build_pk on two findings of one table, root and path.       *)
(***************************************************************************)

\* Findings of one file that differ in identity columns only: a rule named
\* in rule_id or in check_id, a position given as line_number or as
\* end_line_number, with 0 and None for a position that is not known.
PkRows ==
    {[F1 EXCEPT !.rule_id = rule_id, !.check_id = check_id,
                !.line_number = line_number, !.end_line_number = end_line_number] :
        rule_id \in {None, S(<<"X">>)}, check_id \in {None, S(<<"X">>)},
        line_number \in {None, I(0), I(5)}, end_line_number \in {None, I(5)}}

PkCall ==
    /\ FnIdle
    /\ \E r \in PkRows, q \in PkRows :
           FnCall([fn |-> "build_pk", rows |-> <<r, q>>], <<build_pk(r), build_pk(q)>>)

\* s ends with suffix.
EndsWith(s, suffix) ==
    Len(s) >= Len(suffix) /\ SubSeq(s, Len(s) - Len(suffix) + 1, Len(s)) = suffix

TimedOut == fcall.fn = "_run" /\ fcall.proc.kind = "timeout"

\* C14: timeout synthesis.  When the analyzer exceeds timeout_s, _run returns
\* a result with returncode 124, the stdout captured so far, the captured
\* stderr followed by the marker [TIMEOUT after <timeout_s>s] at its end, and
\* no parsed_json.
C14_TimeoutSynthesis ==
    TimedOut =>
        /\ ~fret.raised
        /\ fret.returncode = 124
        /\ fret.stdout = CapturedText(fcall.proc.stdout)
        /\ EndsWith(fret.stderr,
                    <<"[TIMEOUT after ", ToString(fcall.timeout_s.v), "s]">>)
        /\ SubSeq(fret.stderr, 1, Len(CapturedText(fcall.proc.stderr)))
               = CapturedText(fcall.proc.stderr)
        /\ Len(fret.stderr) = Len(CapturedText(fcall.proc.stderr)) + 4
        /\ fret.parsed_json = None

\* The timeout expired on a process that had written a JSON document to
\* stdout and bytes to stderr.
C14_Witness ==
    /\ TimedOut
    /\ fcall.proc.stdout = S(<<"{}">>)
    /\ fcall.proc.stderr.t = "bytes"
    /\ ~fret.raised

(***************************************************************************)
(* The audit command: the requested tools are checked against the         *)
(* registry, the projects are discovered, and audit_file runs on each,     *)
(* one after the other or in a pool of workers.                            *)
(***************************************************************************)
MinCmdJobs == 2
MaxCmdJobs == 3

\* TOOL_FACTORIES
Registry == {"semgrep", "bandit", "mypy", "radon", "vulture", "eslint", "gitleaks",
             "biome", "snyk", "bearer", "qlty"}

\* What --tool can ask for.
Requests == {<<"bandit">>, tools, <<"bandit", "nosuchtool">>, <<"nosuchtool">>}

Strategies == {"auto", "thread", "process", "none"}

\* How audit_file can end on one project: it returns, with or without tools
\* in errors, or it raises: from a failing unit (stop_on_error only), or from
\* the persist loop, where an exception of parse_to_models or
\* save_scan_and_rows leaves it whatever stop_on_error is.
ProjectOutcomes(stop_on_error) ==
    IF stop_on_error
    THEN {"returned", "tool_error", "store_error"}
    ELSE {"returned", "returned_with_errors", "store_error"}

ProjectRaised(o) == o \in {"tool_error", "store_error"}

\* The check as it would be if every name passed.
UnknownIgnored(req) == {}

\* unknown = [t for t in selected_tools if t not in available_tools()]
Unknown(req) == {req[i] : i \in DOMAIN req} \ Registry

\* The inner job count as it would be if it were never clamped.
InnerJobsUnclamped(parallel, jobs) == jobs

\* inner_jobs = 1 if (parallel != Parallel.none and jobs > 1) else jobs
InnerJobs(parallel, jobs) == IF parallel # "none" /\ jobs > 1 THEN 1 ELSE jobs

\* The pool of the audit_file that runs on a project with the command's
\* tools: max(1, min(jobs, len(jobs_to_run))) workers.
InnerWorkers(inner_jobs, req) ==
    LET m == IF inner_jobs < Len(req) THEN inner_jobs ELSE Len(req)
    IN IF m < 1 THEN 1 ELSE m

\* if parallel == Parallel.none or jobs == 1 or len(projects) == 1
SequentialBranch(parallel, jobs, n) == parallel = "none" \/ jobs = 1 \/ n = 1

\* Lines 824-897: options, registry check, discovery, choice of the branch.
CmdStart(req, parallel, jobs, stop_on_error, n) ==
    LET base == [CmdIdle EXCEPT !.pc = "done", !.tools = req, !.parallel = parallel,
                                !.jobs = jobs, !.stop_on_error = stop_on_error]
    IN /\ cmd.pc = "idle"
       /\ cmd' = IF Unknown(req) # {}
                 THEN [base EXCEPT !.exit = 2]
                 ELSE IF n = 0
                 THEN [base EXCEPT !.discovered = TRUE, !.exit = 0]
                 ELSE IF SequentialBranch(parallel, jobs, n)
                 THEN [base EXCEPT !.pc = "sequential", !.discovered = TRUE, !.n = n,
                                   !.inner_jobs = InnerJobs(parallel, jobs), !.next = 1,
                                   !.proj[1] = "running", !.left[1] = Len(req)]
                 ELSE [base EXCEPT !.pc = "parallel", !.discovered = TRUE, !.n = n,
                                   !.inner_jobs = InnerJobs(parallel, jobs),
                                   !.proj = [p \in 1..MaxProjects |->
                                                IF p <= n THEN "pending" ELSE "none"]]
       /\ UNCHANGED <<fcall, fret>>
       /\ UNCHANGED storeVars
       /\ UNCHANGED auditVars

\* audit_file can end on project p with outcome o: its pool has shut down,
\* so no unit of it executes; every unit was handed to a worker, unless a
\* failing unit made it cancel the ones still waiting.
CanEnd(p, o) ==
    /\ cmd.proj[p] = "running"
    /\ cmd.units[p] = 0
    /\ IF o = "tool_error" THEN cmd.left[p] < Len(cmd.tools) ELSE cmd.left[p] = 0

\* Lines 899-912: audit_file ends on the project the sequential loop is at,
\* and the loop goes on to the next one.  An exception of audit_file leaves
\* the command.
CmdRunOne(o) ==
    LET p == cmd.next
        ran == [cmd EXCEPT !.proj[p] = "finished", !.res[p] = o, !.left[p] = 0]
    IN /\ cmd.pc = "sequential"
       /\ CanEnd(p, o)
       /\ cmd' = IF ProjectRaised(o)
                 THEN [ran EXCEPT !.pc = "done", !.exit = 1, !.escalated = @ + 1]
                 ELSE IF p = cmd.n
                 THEN [ran EXCEPT !.pc = "done", !.exit = 0]
                 ELSE [ran EXCEPT !.next = p + 1, !.proj[p + 1] = "running",
                                  !.left[p + 1] = Len(cmd.tools)]
       /\ UNCHANGED <<fcall, fret>>
       /\ UNCHANGED storeVars
       /\ UNCHANGED auditVars

ProjRunning == {p \in 1..MaxProjects : cmd.proj[p] = "running"}

\* The pool of _choose_executor(parallel, jobs) starts the oldest pending
\* project on a free worker.
ProjStart(p) ==
    /\ cmd.pc \in {"parallel", "shutdown"}
    /\ cmd.proj[p] = "pending"
    /\ \A q \in 1..(p - 1) : cmd.proj[q] # "pending"
    /\ Cardinality(ProjRunning) < cmd.jobs
    /\ cmd' = [cmd EXCEPT !.proj[p] = "running", !.left[p] = Len(cmd.tools)]
    /\ UNCHANGED <<fcall, fret>>
    /\ UNCHANGED storeVars
    /\ UNCHANGED auditVars

\* The pool of the audit_file running on project p hands a waiting unit to a
\* free worker.
UnitStart(p) ==
    /\ cmd.proj[p] = "running"
    /\ cmd.left[p] > 0
    /\ cmd.units[p] < InnerWorkers(cmd.inner_jobs, cmd.tools)
    /\ cmd' = [cmd EXCEPT !.left[p] = @ - 1, !.units[p] = @ + 1]
    /\ UNCHANGED <<fcall, fret>>
    /\ UNCHANGED storeVars
    /\ UNCHANGED auditVars

\* A unit of project p ends in its worker.
UnitFinish(p) ==
    /\ cmd.units[p] > 0
    /\ cmd' = [cmd EXCEPT !.units[p] = @ - 1]
    /\ UNCHANGED <<fcall, fret>>
    /\ UNCHANGED storeVars
    /\ UNCHANGED auditVars

\* _run_one ends in its worker.
ProjFinish(p, o) ==
    /\ cmd.pc \in {"parallel", "shutdown"}
    /\ CanEnd(p, o)
    /\ cmd' = [cmd EXCEPT !.proj[p] = "finished", !.res[p] = o, !.left[p] = 0]
    /\ UNCHANGED <<fcall, fret>>
    /\ UNCHANGED storeVars
    /\ UNCHANGED auditVars

\* for f in futures: if not f.done(): f.cancel()
CancelPendingProjects(proj) ==
    [p \in 1..MaxProjects |-> IF proj[p] = "pending" THEN "cancelled" ELSE proj[p]]

\* Lines 927-951: as_completed yields a finished project.
CmdCollect(p) ==
    LET escalate == ProjectRaised(cmd.res[p]) /\ cmd.stop_on_error /\ cmd.first_error = 0
        seen == cmd.collected \cup {p}
    IN /\ cmd.pc = "parallel"
       /\ cmd.proj[p] = "finished"
       /\ p \notin cmd.collected
       /\ cmd' = IF escalate
                 THEN [cmd EXCEPT !.collected = seen, !.first_error = p,
                                  !.escalated = @ + 1,
                                  !.proj = CancelPendingProjects(cmd.proj),
                                  !.pc = "shutdown"]
                 ELSE IF Cardinality(seen) = cmd.n
                 THEN [cmd EXCEPT !.collected = seen, !.pc = "shutdown"]
                 ELSE [cmd EXCEPT !.collected = seen]
       /\ UNCHANGED <<fcall, fret>>
       /\ UNCHANGED storeVars
       /\ UNCHANGED auditVars

\* Lines 916 and 957-959: the executor's __exit__ waits for the running
\* projects, then the command ends.
CmdExit ==
    /\ cmd.pc = "shutdown"
    /\ ProjRunning = {}
    /\ cmd' = [cmd EXCEPT !.pc = "done",
                          !.exit = IF cmd.first_error # 0 THEN 1 ELSE 0]
    /\ UNCHANGED <<fcall, fret>>
    /\ UNCHANGED storeVars
    /\ UNCHANGED auditVars

(***************************************************************************)
(* The finding the command stores for a file: the start_root the branch    *)
(* hands to audit_file, the row bandit_json_to_models builds with it, and  *)
(* the row's pk.                                                           *)
(***************************************************************************)

\* ensure_abs: an absolute path as it is, a relative one resolved from cwd,
\* or from the working directory of the process when there is no cwd.
ensure_abs(path, cwd) ==
    IF IsAbs(path) THEN StrPath(path)
    ELSE <<"/">> \o JoinSegs(AbsSegs((IF Truthy(cwd) THEN cwd.v \o <<"/">> ELSE <<>>) \o path))

\* start_root=str(project) in the sequential loop, start_root=str(target_path)
\* in the pool.
StartRootOf(parallel, jobs, n, target_path, project) ==
    IF SequentialBranch(parallel, jobs, n) THEN StrPath(project) ELSE StrPath(target_path)

\* CommandAuditTool.audit: bandit is run on the resolved path of the file,
\* in the file's directory, and reports the file under the path it was given.
ReportedFilename(project) == <<"/">> \o JoinSegs(AbsSegs(project))
RunCwd(project) == ResolvedParent(project)

\* bandit_json_to_models: the row of one result, and the pk it is stored
\* under.
BanditRowOf(filename, cwd, start_root) ==
    LET abs_path == strip_before_start_root(ensure_abs(filename, S(cwd)), S(start_root))
        row == Row(Bandit, S(start_root), S(abs_path), None, None, S(<<"m1">>), I(1),
                   S(<<"x=1">>))
    IN [row EXCEPT !.pk = build_pk(row)]

\* The row stored for the file `project` by an audit of target_path.
StoredFinding(parallel, jobs, n, target_path, project) ==
    BanditRowOf(ReportedFilename(project), RunCwd(project),
                StartRootOf(parallel, jobs, n, target_path, project))

\* The directories audited and the files discovered in them.
TargetPaths == {<<"/", "w", "/", "proj">>}
ProjectFiles ==
    {<<"/", "w", "/", "proj", "/", "a.py">>,
     <<"/", "w", "/", "proj", "/", "pkg", "/", "b.py">>}

StoreFindingCall ==
    /\ FnIdle
    /\ \E parallel \in Strategies, jobs \in MinCmdJobs..MaxCmdJobs, n \in 1..MaxProjects,
          target_path \in TargetPaths, project \in ProjectFiles :
           FnCall([fn |-> "audit", parallel |-> parallel, jobs |-> jobs, n |-> n,
                   target_path |-> target_path, project |-> project],
                  StoredFinding(parallel, jobs, n, target_path, project))

NextCmd ==
    \/ \E req \in Requests, parallel \in Strategies, jobs \in MinCmdJobs..MaxCmdJobs,
          stop_on_error \in BOOLEAN, n \in 0..MaxProjects :
           CmdStart(req, parallel, jobs, stop_on_error, n)
    \/ \E o \in ProjectOutcomes(cmd.stop_on_error) : CmdRunOne(o)
    \/ \E p \in 1..MaxProjects : ProjStart(p)
    \/ \E p \in 1..MaxProjects : UnitStart(p)
    \/ \E p \in 1..MaxProjects : UnitFinish(p)
    \/ \E p \in 1..MaxProjects, o \in ProjectOutcomes(cmd.stop_on_error) : ProjFinish(p, o)
    \/ \E p \in 1..MaxProjects : CmdCollect(p)
    \/ CmdExit

SpecCmd == InitStore /\ [][NextCmd]_vars

\* The pure functions, each called once.
NextFn ==
    \/ StoreFindingCall
    \/ PkCall
    \/ AggregateCall
    \/ RelativizeCall
    \/ StripCall
    \/ RootLabelCall
    \/ JscpdCall
    \/ RunCall

SpecFn == InitStore /\ [][NextFn]_vars

\* The projects on which audit_file was started.
Started == {p \in 1..MaxProjects : cmd.proj[p] \in {"running", "finished"}}

\* C15: unknown tool names abort before any work.  A command asked for a
\* name that is not in the registry has failed, and it has discovered no
\* project, handed none to a pool, run audit_file on none and persisted no
\* row; a command that got past the check was asked for known names only.
C15_UnknownToolsAbort ==
    cmd.pc # "idle" =>
        IF \E i \in DOMAIN cmd.tools : cmd.tools[i] \notin Registry
        THEN /\ cmd.pc = "done"
             /\ cmd.exit \notin {-1, 0}
             /\ ~cmd.discovered
             /\ \A p \in 1..MaxProjects : cmd.proj[p] = "none"
             /\ Started = {}
        ELSE cmd.discovered

\* The command was asked for a known and an unknown name with projects to
\* audit.
C15_Witness ==
    /\ cmd.pc = "done"
    /\ cmd.tools = <<"bandit", "nosuchtool">>
    /\ cmd.exit = 2

CmdRan == cmd.pc = "done" /\ cmd.discovered /\ cmd.n > 0

SomeProjectRaised == \E p \in 1..MaxProjects : ProjectRaised(cmd.res[p])

\* C16: multi-target exit code.  A command that ran on its projects ends
\* with exit code 1 when stop_on_error is set and audit_file raised on some
\* project, with no project left waiting or running, and with exit code 0
\* when stop_on_error is not set; it escalates at most one error.
C16_MultiTargetExitCode ==
    CmdRan =>
        /\ (cmd.stop_on_error /\ SomeProjectRaised) =>
               /\ cmd.exit = 1
               /\ \A p \in 1..MaxProjects : cmd.proj[p] \notin {"pending", "running"}
        /\ ~cmd.stop_on_error => cmd.exit = 0
        /\ cmd.escalated <= 1

\* The same, for the runs in which audit_file raises only under
\* stop_on_error.
ExitCodeUnlessPersistRaises ==
    (CmdRan /\ (cmd.stop_on_error \/ ~SomeProjectRaised)) =>
        /\ (cmd.stop_on_error /\ SomeProjectRaised) =>
               /\ cmd.exit = 1
               /\ \A p \in 1..MaxProjects : cmd.proj[p] \notin {"pending", "running"}
        /\ (cmd.stop_on_error /\ ~SomeProjectRaised) => cmd.exit = 0
        /\ ~cmd.stop_on_error => cmd.exit = 0
        /\ cmd.escalated <= 1

\* The two sides of a clone as an unordered pair of (file, start, end).
SidesOfClone(c) ==
    {SideKey(Rel(Repo, c.first.name), SpanOf(c.first).start, SpanOf(c.first).end),
     SideKey(Rel(Repo, c.second.name), SpanOf(c.second).start, SpanOf(c.second).end)}

SidesOfFinding(f) ==
    {SideKey(f.file, f.line, f.end_line),
     SideKey(f.counterpart.file, f.counterpart.start, f.counterpart.end)}

\* Two entries of the report are one clone in the two orders.
Mirrored(c, d) ==
    /\ SideKey(Rel(Repo, c.first.name), SpanOf(c.first).start, SpanOf(c.first).end)
           = SideKey(Rel(Repo, d.second.name), SpanOf(d.second).start, SpanOf(d.second).end)
    /\ SideKey(Rel(Repo, c.second.name), SpanOf(c.second).start, SpanOf(c.second).end)
           = SideKey(Rel(Repo, d.first.name), SpanOf(d.first).start, SpanOf(d.first).end)
    /\ c.fragment = d.fragment

Segments(text) == PathParts(text)

LastOf(segs) == IF segs = <<>> THEN <<>> ELSE segs[Len(segs)]

\* The segments every one of the paths starts with, a leading "/" counted
\* as a shared ancestor of its own only when something follows it.
SharedAncestor(paths) ==
    IF \E i, j \in DOMAIN paths : IsAbs(paths[i]) # IsAbs(paths[j]) THEN <<>>
    ELSE CommonSegs([i \in DOMAIN paths |-> Segments(paths[i])])

\* C18: root label.  With a cwd the label is the final segment of cwd.
\* Without one it is the final segment of the longest common path prefix of
\* the paths, and when the paths share no ancestor the final segment of the
\* parent directory of the first path.
C18_RootLabel ==
    fcall.fn = "determine_root_label" =>
        LET paths == NonEmpty(fcall.paths)
        IN IF Truthy(fcall.cwd)
           THEN Segments(fcall.cwd.v) # <<>> => fret = LastOf(Segments(fcall.cwd.v))
           ELSE IF paths = <<>> THEN TRUE
           ELSE IF SharedAncestor(paths) # <<>>
           THEN fret = LastOf(SharedAncestor(paths))
           ELSE fret = LastOf(SubSeq(AbsSegs(paths[1]), 1, Len(AbsSegs(paths[1])) - 1))

\* The label where the code itself takes the fallback: the paths mix
\* absolute and relative ones.
LabelOnMixedPaths ==
    (/\ fcall.fn = "determine_root_label"
     /\ ~Truthy(fcall.cwd)
     /\ NonEmpty(fcall.paths) # <<>>
     /\ CommonPathFails(NonEmpty(fcall.paths)))
    => fret = LastOf(SubSeq(AbsSegs(NonEmpty(fcall.paths)[1]), 1,
                            Len(AbsSegs(NonEmpty(fcall.paths)[1])) - 1))

\* The folder name an anchor stands for, no name for no anchor.
AnchorName(start_root) ==
    IF Truthy(start_root) THEN NormBaseName(start_root.v) ELSE <<>>

\* C19: anchor clipping.  strip_before_start_root returns the segments of
\* the path from the right-most segment equal to the anchor's folder name
\* onward, and the path unchanged when no segment equals it or there is no
\* anchor.
C19_AnchorClipping ==
    fcall.fn = "strip_before_start_root" =>
        LET segs == Segments(fcall.abs_path)
            anchor == AnchorName(fcall.start_root)
            at == {i \in DOMAIN segs : segs[i] = anchor}
        IN IF ~Truthy(fcall.start_root) \/ at = {}
           THEN fret = fcall.abs_path
           ELSE \E i \in at :
                   /\ \A j \in at : j <= i
                   /\ Segments(fret) = SubSeq(segs, i, Len(segs))
                   /\ ~IsAbs(fret)

\* /a/proj/proj/file.py clipped to an anchor named proj is proj/file.py.
C19_Witness ==
    /\ fcall.fn = "strip_before_start_root"
    /\ fcall.abs_path = <<"/", "a", "/", "proj", "/", "proj", "/", "file.py">>
    /\ fcall.start_root = S(<<"/", "z", "/", "proj", "/">>)
    /\ fret = <<"proj", "/", "file.py">>

\* The path is absolute and lies under cwd.
LiesUnder(value, cwd) ==
    /\ Truthy(value) /\ Truthy(cwd)
    /\ IsAbs(value.v)
    /\ IsPrefix(AbsSegs(cwd.v), AbsSegs(value.v))

\* The path below cwd, "." for cwd itself.
BelowCwd(value, cwd) ==
    IF Len(AbsSegs(value.v)) = Len(AbsSegs(cwd.v)) THEN <<".">>
    ELSE JoinSegs(SubSeq(AbsSegs(value.v), Len(AbsSegs(cwd.v)) + 1, Len(AbsSegs(value.v))))

\* The conversion failed: the relative cwd could not be resolved.
ConversionFailed ==
    /\ Truthy(fcall.value) /\ Truthy(fcall.cwd)
    /\ ~IsAbs(fcall.cwd.v) /\ fcall.cwd_gone

\* C20: relativize_path returns the path expressed relative to cwd whenever
\* the path is absolute and lies under cwd, and it never raises: when the
\* conversion fails it returns the original string.
C20_RelativeToCwd ==
    fcall.fn = "relativize_path" =>
        /\ fret.t \in {"none", "str"}
        /\ ConversionFailed => fret = fcall.value
        /\ (LiesUnder(fcall.value, fcall.cwd) /\ ~ConversionFailed)
               => fret = S(BelowCwd(fcall.value, fcall.cwd))

\* What the code returns for a path under cwd: the path below cwd behind the
\* name of cwd, unless it starts with that name already.
RelativizedUnderLabel ==
    (/\ fcall.fn = "relativize_path"
     /\ LiesUnder(fcall.value, fcall.cwd)
     /\ ~ConversionFailed
     /\ AbsSegs(fcall.cwd.v) # <<>>)
    => LET label == AbsSegs(fcall.cwd.v)[Len(AbsSegs(fcall.cwd.v))]
           below == BelowCwd(fcall.value, fcall.cwd)
       IN fret = IF below = <<".">> THEN S(label)
                 ELSE IF Split(below)[1] = label THEN S(below)
                 ELSE S(label \o <<"/">> \o below)

(***************************************************************************)
(* The size of the worker pool of audit_file.                              *)
(***************************************************************************)

Smaller(a, b) == IF a < b THEN a ELSE b

\* The audit_file run is past its submit loop.
AuditStarted == pc # "idle"

\* C21: at every moment of an audit_file run the number of units executing
\* concurrently is at most min(jobs, number of requested tools), or one when
\* that minimum is below 1; and the pool has at least one worker even when
\* jobs is below 1.
C21_BoundedWorkerPool ==
    AuditStarted =>
        /\ cfg.max_workers >= 1
        /\ \/ Cardinality(Running) <= Smaller(cfg.jobs, Len(tools))
           \/ Smaller(cfg.jobs, Len(tools)) < 1 /\ Cardinality(Running) <= 1

\* The pool is full while a unit is still waiting for a worker.
C21_Witness ==
    /\ pc = "collect"
    /\ cfg.jobs = 2
    /\ Cardinality(Running) = 2
    /\ \E t \in ToolSet : fut[t] = "pending"

\* A unit executes in a run that was asked for no job at all.
RunsWithJobsBelowOne == pc = "collect" /\ cfg.jobs < 1 /\ Cardinality(Running) = 1

(***************************************************************************)
(* The units executing under the audit command.                            *)
(***************************************************************************)

\* The units executing at once in the audit_file runs of projects 1..p.
RECURSIVE UnitsUpTo(_)
UnitsUpTo(p) == IF p = 0 THEN 0 ELSE UnitsUpTo(p - 1) + cmd.units[p]

TotalUnits == UnitsUpTo(MaxProjects)

\* The command runs its projects in a pool of more than one worker.
ProjectsConcurrent ==
    /\ cmd.pc \in {"parallel", "shutdown"}
    /\ cmd.parallel \in {"auto", "thread", "process"}
    /\ cmd.jobs > 1

\* C22: no oversubscription across projects.  Whenever the command runs
\* projects concurrently, every audit_file runs with inner job count 1, no
\* project has two units executing, and the units executing at once over all
\* projects are at most the requested jobs value.
C22_NoOversubscription ==
    /\ cmd.pc \in {"parallel", "shutdown"} => ProjectsConcurrent
    /\ ProjectsConcurrent =>
           /\ cmd.inner_jobs = 1
           /\ \A p \in 1..MaxProjects : cmd.units[p] <= 1
           /\ TotalUnits <= cmd.jobs

\* Three projects of three tools each under --jobs 2: two projects run, each
\* with one unit executing and units waiting, and a project waits.
C22_Witness ==
    /\ ProjectsConcurrent
    /\ cmd.jobs = 2
    /\ cmd.tools = tools
    /\ TotalUnits = 2
    /\ \E p \in 1..MaxProjects : cmd.proj[p] = "running" /\ cmd.left[p] > 0
    /\ \E p \in 1..MaxProjects : cmd.proj[p] = "pending"

(***************************************************************************)
(* The order of completion and what a run leaves behind.                   *)
(***************************************************************************)

\* What the units' outcomes alone determine: the tools whose result loads,
\* and the entries of errors.
LoadedTools == {t \in ToolSet : ~Bad(outcome[t])}
ErrorEntries == {ErrorOf(t, outcome[t]) : t \in {u \in ToolSet : Bad(outcome[u])}}

\* Normalizing and persisting the loaded results one tool after the other in
\* request order, from tool k on, on database db after n persist calls: the
\* tools reached, the tools stored, the database left behind, and whether an
\* exception ended it.
RECURSIVE InRequestOrder(_, _, _, _, _)
InRequestOrder(k, db, n, reached, stored) ==
    IF k > Len(tools)
    THEN [db |-> db, calls |-> n, reached |-> reached, stored |-> stored, raised |-> FALSE]
    ELSE LET t == tools[k]
             seen == Append(reached, t)
         IN IF t \notin LoadedTools
            THEN InRequestOrder(k + 1, db, n, seen, stored)
            ELSE IF outcome[t].kind = "unnormalizable"
            THEN [db |-> db, calls |-> n, reached |-> seen, stored |-> stored,
                  raised |-> TRUE]
            ELSE LET res == save_scan_and_rows(db, n + 1, Parsed(t).rows,
                                               Parsed(t).scan, FALSE)
                 IN IF res.raised # "none"
                    THEN [db |-> res.db, calls |-> n + 1, reached |-> seen,
                          stored |-> stored, raised |-> TRUE]
                    ELSE InRequestOrder(k + 1, res.db, n + 1, seen, stored \cup {t})

\* The tools the persist loop has reached, in the order it reached them.
RECURSIVE ReachedIn(_)
ReachedIn(evs) ==
    IF evs = <<>> THEN <<>>
    ELSE LET rest == ReachedIn(SubSeq(evs, 1, Len(evs) - 1))
             e == evs[Len(evs)]
         IN IF e[1] = "processing_started" THEN Append(rest, e[2]) ELSE rest

\* The databases a run can start on, with the persist calls made before it.
StartingPoints ==
    {[db |-> [scans |-> {}, findings |-> {}], calls |-> 0],
     [db |-> EarlierScan.db, calls |-> 1]}

PrimarySide(f) == SideKey(f.file, f.line, f.end_line)
CounterpartSide(f) == SideKey(f.counterpart.file, f.counterpart.start, f.counterpart.end)

\* Every finding's location is the lexically-first of its two sides.
PrimaryIsFirst(found) ==
    \A k \in DOMAIN found : KeyLeq(PrimarySide(found[k]), CounterpartSide(found[k]))

\* C24: canonical primary side.  Every finding JscpdTool.parse emits for a
\* clone has the lexically-first of the two (file, start, end) sides as its
\* location and the other side as counterpart, whichever side the report
\* lists first.
C24_CanonicalPrimarySide ==
    fcall.fn = "jscpd.parse" => PrimaryIsFirst(fret)

\* The same for the parser of tools/common alone, which sorts the two
\* candidate sides before it builds the finding.
CanonicalPrimaryCommon ==
    (fcall.fn = "jscpd.parse" /\ fcall.parser = "common") => PrimaryIsFirst(fret)

\* The parser of tools/common was given a clone with its lexically-second
\* side listed first.
CommonGivenSecondFirst ==
    /\ fcall.fn = "jscpd.parse"
    /\ fcall.parser = "common"
    /\ fcall.clones = <<Clone(InstB, InstA, None)>>
    /\ Len(fret) = 1
    /\ fret[1].file = S(<<"a.ts">>)

(***************************************************************************)
(* The aggregate of a file's blocks.                                       *)
(***************************************************************************)

\* The blocks of the call that have rank r.
BlocksOfRank(r) == {i \in DOMAIN fcall.blocks : RankOf(fcall.blocks[i]) = r}

RECURSIVE ComplexitySum(_, _)
ComplexitySum(blocks, i) ==
    IF i = 0 THEN 0 ELSE ComplexitySum(blocks, i - 1) + ComplexityOf(blocks[i])

\* The positions in [A,B,C,D,E,F] of the ranks the histogram counts.
CountedPositions ==
    {i \in DOMAIN RankOrder :
        RankOrder[i] \in DOMAIN fret.cc_rank_counts /\ fret.cc_rank_counts[RankOrder[i]] > 0}

\* C25: cyclomatic-complexity aggregation.  cc_blocks is the number of
\* blocks, cc_total the sum of their complexities, cc_max the largest of
\* them, cc_rank_counts counts the blocks of every rank, and cc_worst_rank is
\* the rank of highest index in [A,B,C,D,E,F] that the histogram counts,
\* whatever the order of the blocks and whatever the counts.
C25_ComplexityAggregation ==
    fcall.fn = "_aggregate_cc_list" =>
        /\ fret.cc_blocks = Len(fcall.blocks)
        /\ fret.cc_total = ComplexitySum(fcall.blocks, Len(fcall.blocks))
        /\ fcall.blocks # <<>> =>
               /\ \E i \in DOMAIN fcall.blocks : fret.cc_max = ComplexityOf(fcall.blocks[i])
               /\ \A i \in DOMAIN fcall.blocks : fret.cc_max >= ComplexityOf(fcall.blocks[i])
        /\ DOMAIN fret.cc_rank_counts = {RankOf(fcall.blocks[i]) : i \in DOMAIN fcall.blocks}
        /\ \A r \in DOMAIN fret.cc_rank_counts :
               fret.cc_rank_counts[r] = Cardinality(BlocksOfRank(r))
        /\ CountedPositions # {} =>
               /\ \E i \in CountedPositions : fret.cc_worst_rank = RankOrder[i]
               /\ \A i \in CountedPositions : RankIndex(fret.cc_worst_rank) >= i - 1

\* The worst rank came first and is the rarest: one F block, then two C
\* blocks.
C25_Witness ==
    /\ fcall.fn = "_aggregate_cc_list"
    /\ Len(fcall.blocks) = 3
    /\ RankOf(fcall.blocks[1]) = "F"
    /\ RankOf(fcall.blocks[2]) = "C"
    /\ RankOf(fcall.blocks[3]) = "C"
    /\ fret.cc_worst_rank = "F"
    /\ fret.cc_total = 7

\* With no block of a rank in [A,B,C,D,E,F], and with no block at all, the
\* worst rank is A.
WorstRankDefaultsToA ==
    (fcall.fn = "_aggregate_cc_list" /\ CountedPositions = {}) => fret.cc_worst_rank = "A"

(***************************************************************************)
(* The scan a persist call returns.                                        *)
(***************************************************************************)

\* The Finding rows the last call made durable.
InsertedByCall == findings \ last.findingsBefore

\* The returned scan id is that of a durable ScanMetadata row, and every
\* Finding row the call inserted references it.
ScanIdDurable ==
    /\ \E s \in scans : s.id = last.scan_id
    /\ \A r \in InsertedByCall : r.scan_id = I(last.scan_id)

\* C26: the scan id returned by save_scan_and_rows identifies a durable
\* ScanMetadata row and every Finding row the call inserted references it,
\* also when an IntegrityError made the call roll back after the scan row
\* had been flushed.
C26_ScanIdDurable == Returned => ScanIdDurable

\* The same for the calls none of whose rows was stored before.
ScanIdDurableWithoutConflict == (Returned /\ Existing = {}) => ScanIdDurable

\* A call that met a stored row went on to insert a new one and returned.
InsertedAfterRollback == Returned /\ Existing # {} /\ InsertedByCall # {}

(***************************************************************************)
(* The identity of two findings.                                           *)
(***************************************************************************)

\* The identity columns in which two rows differ, one of them at least
\* holding a value there (None against 0 is not counted as a difference).
DifferingCols(r, q) ==
    {k \in DOMAIN PkCols :
        /\ r[PkCols[k]] # q[PkCols[k]]
        /\ Truthy(r[PkCols[k]]) \/ Truthy(q[PkCols[k]])}

\* The identity columns of a row that hold a value build_pk keeps.
KeptCols(r) == {k \in DOMAIN PkCols : Truthy(r[PkCols[k]])}

\* C27: identity is injective on the identity fields.  Two findings of one
\* table, root and path that differ in an identity column, one of them
\* having the column absent or 0 included, get different keys from build_pk.
C27_IdentityInjective ==
    fcall.fn = "build_pk" =>
        (DifferingCols(fcall.rows[1], fcall.rows[2]) # {} => fret[1] # fret[2])

\* The same for two findings that have their values in the same columns.
InjectiveOnSameColumns ==
    (/\ fcall.fn = "build_pk"
     /\ KeptCols(fcall.rows[1]) = KeptCols(fcall.rows[2])
     /\ \E k \in KeptCols(fcall.rows[1]) :
            fcall.rows[1][PkCols[k]] # fcall.rows[2][PkCols[k]])
    => fret[1] # fret[2]

\* Two findings with values in the same columns and another line number.
SameColumnsOtherLine ==
    /\ fcall.fn = "build_pk"
    /\ KeptCols(fcall.rows[1]) = KeptCols(fcall.rows[2])
    /\ fcall.rows[1].line_number # fcall.rows[2].line_number

(***************************************************************************)
(* The identity of a finding under the strategies of the command.          *)
(***************************************************************************)

\* C28: strategy independence of identity.  The file_path, root and pk the
\* command stores for a finding of a file are those it stores for the same
\* file and the same analyzer output under every other strategy and whatever
\* the number of files discovered next to it.
C28_StrategyIndependence ==
    fcall.fn = "audit" =>
        \A parallel \in Strategies, n \in 1..MaxProjects :
            LET other == StoredFinding(parallel, fcall.jobs, n, fcall.target_path,
                                       fcall.project)
            IN /\ fret.file_path = other.file_path
               /\ fret.root = other.root
               /\ fret.pk = other.pk

\* The same among the runs that take one branch.
IdentityFixedWithinBranch ==
    fcall.fn = "audit" =>
        \A parallel \in Strategies, n \in 1..MaxProjects :
            SequentialBranch(parallel, fcall.jobs, n)
                    = SequentialBranch(fcall.parallel, fcall.jobs, fcall.n)
                => fret = StoredFinding(parallel, fcall.jobs, n, fcall.target_path,
                                        fcall.project)

\* A file stored by the pool of projects: its path starts at the audited
\* directory's name and its root is the audited directory.
StoredByPool ==
    /\ fcall.fn = "audit"
    /\ ~SequentialBranch(fcall.parallel, fcall.jobs, fcall.n)
    /\ fret.file_path = S(<<"proj", "/", "pkg", "/", "b.py">>)
    /\ fret.root = S(<<"/", "w", "/", "proj">>)

\* The same file stored by the sequential loop: its path is its name and its
\* root the file itself.
StoredByLoop ==
    /\ fcall.fn = "audit"
    /\ SequentialBranch(fcall.parallel, fcall.jobs, fcall.n)
    /\ fret.file_path = S(<<"b.py">>)
    /\ fret.root = S(<<"/", "w", "/", "proj", "/", "pkg", "/", "b.py">>)

(***************************************************************************)
(* The inner job count of the sequential loop.                             *)
(***************************************************************************)

\* The command runs its projects one after the other.
OneAfterAnother == cmd.pc = "sequential"

\* C29: inner concurrency is clamped only when projects run concurrently.
\* Whenever the command processes its projects one after another, under
\* strategy none or with a single discovered project under any strategy,
\* audit_file receives the requested jobs value.
C29_ClampOnlyWhenConcurrent == OneAfterAnother => cmd.inner_jobs = cmd.jobs

\* The same under strategy none alone.
UnclampedUnderNone ==
    (OneAfterAnother /\ cmd.parallel = "none") => cmd.inner_jobs = cmd.jobs

\* Under strategy none two units of one project execute at once.
TwoUnitsUnderNone ==
    /\ OneAfterAnother
    /\ cmd.parallel = "none"
    /\ \E p \in 1..MaxProjects : cmd.units[p] = 2

\* With a single discovered project under another strategy the units of the
\* project execute one at a time.
SingleProjectOneUnit ==
    (OneAfterAnother /\ cmd.parallel # "none") =>
        /\ cmd.n = 1
        /\ cmd.inner_jobs = 1
        /\ TotalUnits <= 1

(***************************************************************************)
(* The end of a run of audit_file.                                         *)
(***************************************************************************)

FinalEvents == {"completed", "completed_with_errors"}

\* The positions of the final events among the events emitted.
FinalAt == {i \in DOMAIN events : events[i][1] \in FinalEvents}

\* A run that returned emitted one final event, as its last event:
\* completed when errors is empty, completed_with_errors otherwise.
OneFinalEvent ==
    /\ FinalAt = {Len(events)}
    /\ events[Len(events)][1] =
           (IF errors = <<>> THEN "completed" ELSE "completed_with_errors")

\* C30: termination.  Every run of audit_file comes to its end: it returns,
\* having emitted exactly one final event, or it raises, and it emits no
\* final event before it returns; it does so although cancelled units never
\* run and collected units are never yielded again.
C30_Termination ==
    /\ [](pc = "returned" => OneFinalEvent)
    /\ [](pc # "returned" => FinalAt = {})
    /\ (AuditStarted ~> Over)

\* A run aborted with two workers: the error reached the caller once the
\* unit in flight had ended, with the third unit cancelled and never run.
C30_Witness ==
    /\ pc = "raised"
    /\ cfg.jobs = 2
    /\ \E t \in ToolSet : fut[t] = "cancelled" /\ outcome[t].kind = "none"
    /\ \E t \in inflight : fut[t] = "finished"
    /\ Len(collected) = 1
====
